---- MODULE Spec2Model ----
(***************************************************************************)
(* The Ludo room engine of PlantasVsZombiesBac: GameService                *)
(* (src/unnamed/part_003), GameGateway (src/src/game/game.gateway.ts,      *)
(* lines 1-380) and RoomsService (src/unnamed/part_012) for one room.      *)
(*                                                                         *)
(* Arrays are functions on 0..n-1, as in the source.  Time is counted in   *)
(* ticks of 500 ms, the greatest common divisor of the delays the gateway  *)
(* passes to setTimeout (15000, 1500, 1000).                               *)
(***************************************************************************)
EXTENDS Integers, Sequences, FiniteSets, TLC

VARIABLES
    roomPlayers,  \* room.players of RoomsService: array of [id, color]
    status,       \* game.status
    players,      \* game.players: array of [id, color, pieces, multiplier, bomb]
    turnIndex,    \* game.turnIndex
    dice,         \* game.dice (Null = null)
    winners,      \* game.winners: array of ids (Undefined for a pushed undefined)
    totalTurns,   \* game.totalTurns
    powerUps,     \* keys of game.powerUps
    turnTimer,    \* ticks left of the timer held in turnTimers (NoTimer = no entry)
    pending,      \* setTimeout callbacks no map holds: array of [kind, who, left]
    ops,          \* number of handler runs so far (bounds the exploration)
    last,         \* the handler that ran last and what it did
    probe         \* input and output of the function-level specifications

vars == <<roomPlayers, status, players, turnIndex, dice, winners, totalTurns,
          powerUps, turnTimer, pending, ops, last, probe>>

gameVars == <<status, players, turnIndex, dice, winners, totalTurns, powerUps>>

-----------------------------------------------------------------------------
(* Values of the source language *)

\* null of `dice: number | null` and of `bomb: {...} | null`
Null == 0
\* NaN / undefined as a piece position: every comparison with it is false
NaN == -1000
\* game.winners.push(activePlayers[0]?.id) with no active player
Undefined == "undefined"
NoBomb == [pieceIndex |-> -1, timer |-> 0]
NoTimer == -1

IsNum(x) == x # NaN

\* JavaScript's %: the result has the sign of the dividend
JsMod(a, n) == IF a >= 0 THEN a % n ELSE 0 - ((0 - a) % n)

\* Array helpers: arrays are functions on 0..n-1 (pieces may have holes)
Length(a) == IF DOMAIN a = {} THEN 0 ELSE 1 + CHOOSE m \in DOMAIN a : \A k \in DOMAIN a : k <= m
Push(a, x) == [i \in DOMAIN a \cup {Length(a)} |-> IF i \in DOMAIN a THEN a[i] ELSE x]
Includes(a, x) == \E i \in DOMAIN a : a[i] = x
Count(a, x) == Cardinality({i \in DOMAIN a : a[i] = x})
\* a[i] of JavaScript: undefined outside the array
Get(a, i) == IF i \in DOMAIN a THEN a[i] ELSE NaN
\* findIndex: the least index whose element satisfies the test, else -1
FindIndex(a, x) ==
    IF Includes(a, x)
    THEN CHOOSE i \in DOMAIN a : a[i] = x /\ \A k \in DOMAIN a : a[k] = x => i <= k
    ELSE -1
\* the least element of a non-empty set of indices
First(S) == CHOOSE i \in S : \A k \in S : i <= k

\* index of the player with this id in an array of players, else -1
IndexOfId(ps, id) ==
    IF \E i \in DOMAIN ps : ps[i].id = id
    THEN CHOOSE i \in DOMAIN ps : ps[i].id = id /\ \A k \in DOMAIN ps : ps[k].id = id => i <= k
    ELSE -1

-----------------------------------------------------------------------------
(* Board *)

Colors == {"green", "yellow", "blue", "red"}

boardConfig ==
    [c \in Colors |->
        CASE c = "green"  -> [start |-> 1,  turn |-> 51, finalPathStart |-> 100]
          [] c = "yellow" -> [start |-> 14, turn |-> 12, finalPathStart |-> 200]
          [] c = "blue"   -> [start |-> 27, turn |-> 25, finalPathStart |-> 300]
          [] c = "red"    -> [start |-> 40, turn |-> 38, finalPathStart |-> 400]]

TrackLen == 52
GoalOffset == 5
OnTrack(pos) == IsNum(pos) /\ pos >= 0 /\ pos <= 51
GoalPos(color) == boardConfig[color].finalPathStart + GoalOffset

\* isWallAt: some player has 2 or more pieces on pos
isWallAt(ps, pos) == \E i \in DOMAIN ps : Count(ps[i].pieces, pos) >= 2

isPathBlocked(ps, currentPos, steps, myColor) ==
    IF ~IsNum(currentPos) \/ currentPos < 0 \/ currentPos > 51 THEN FALSE
    ELSE \E i \in 1..steps : \E k \in DOMAIN ps :
            /\ ps[k].color # myColor
            /\ Count(ps[k].pieces, (currentPos + i) % TrackLen) >= 2

\* distanceToTurn of canMove and movePiece (NaN for a NaN position)
DistanceToTurn(pos, color) ==
    IF ~IsNum(pos) THEN NaN
    ELSE IF boardConfig[color].turn - pos < 0
         THEN boardConfig[color].turn - pos + TrackLen
         ELSE boardConfig[color].turn - pos

\* canMove admitting one step past the goal cell
canMoveLoose(ps, pos, d, color) ==
    IF pos = -1 THEN d = 1 \/ d = 6
    ELSE IF OnTrack(pos) /\ isPathBlocked(ps, pos, d, color) THEN FALSE
    ELSE IF IsNum(pos) /\ pos >= 100
         THEN d <= (boardConfig[color].finalPathStart + GoalOffset) - pos + 1
    ELSE IF IsNum(DistanceToTurn(pos, color)) /\ d > DistanceToTurn(pos, color)
         THEN d - DistanceToTurn(pos, color) - 1 <= 5
         ELSE TRUE

canMove(ps, pos, d, color) ==
    IF pos = -1 THEN d = 1 \/ d = 6
    ELSE IF OnTrack(pos) /\ isPathBlocked(ps, pos, d, color) THEN FALSE
    ELSE IF IsNum(pos) /\ pos >= 100
         THEN d <= (boardConfig[color].finalPathStart + GoalOffset) - pos
    ELSE LET distanceToTurn == DistanceToTurn(pos, color) IN
         IF IsNum(distanceToTurn) /\ d > distanceToTurn
         THEN d - distanceToTurn - 1 <= 5
         ELSE TRUE

\* newPos of movePiece (lines 319-329)
NewPos(currentPos, d, color) ==
    IF currentPos = -1 THEN boardConfig[color].start
    ELSE IF IsNum(currentPos) /\ currentPos >= 100 THEN currentPos + d
    ELSE LET distanceToTurn == DistanceToTurn(currentPos, color) IN
         IF IsNum(distanceToTurn) /\ d > distanceToTurn
         THEN boardConfig[color].finalPathStart + (d - distanceToTurn - 1)
         ELSE IF IsNum(currentPos) THEN JsMod(currentPos + d, TrackLen) ELSE NaN

-----------------------------------------------------------------------------
(* GameService: each method is an operator from a game record to the game  *)
(* record it leaves.  What Math.random() yields is a parameter.            *)

Game == [status |-> status, players |-> players, turnIndex |-> turnIndex,
         dice |-> dice, winners |-> winners, totalTurns |-> totalTurns,
         powerUps |-> powerUps]

NewPlayer(id, color) ==
    [id |-> id, color |-> color, pieces |-> [i \in 0..3 |-> -1],
     multiplier |-> 1, bomb |-> NoBomb]

EmptyArray == [i \in {} |-> 0]

\* a room RoomsService does not hold: getRoom and findRoomByPlayer find none
NoRoom == EmptyArray

\* createGame: the game a new room gets
createGame ==
    [status |-> "waiting", players |-> EmptyArray, turnIndex |-> 0, dice |-> Null,
     winners |-> EmptyArray, totalTurns |-> 0, powerUps |-> {}]

addPlayerToGame(g, id, color) ==
    IF IndexOfId(g.players, id) # -1 THEN g
    ELSE [g EXCEPT !.players = Push(g.players, NewPlayer(id, color))]

\* colorOrder.indexOf
ColorRank(c) ==
    CASE c = "green" -> 0 [] c = "yellow" -> 1 [] c = "blue" -> 2 [] c = "red" -> 3

\* room.players sorted by colorOrder (the sort is stable; colors are distinct)
SortByColor(rp) ==
    [i \in DOMAIN rp |->
        rp[CHOOSE k \in DOMAIN rp :
            Cardinality({j \in DOMAIN rp :
                \/ ColorRank(rp[j].color) < ColorRank(rp[k].color)
                \/ (ColorRank(rp[j].color) = ColorRank(rp[k].color) /\ j < k)}) = i]]

\* startGame that keeps the winners, the count of turns and the tiles
startGameKeepCounts(g, rp) ==
    [g EXCEPT !.players = [i \in DOMAIN SortByColor(rp) |->
                              NewPlayer(SortByColor(rp)[i].id, SortByColor(rp)[i].color)],
              !.status = "in-progress", !.turnIndex = 0, !.dice = Null]

startGame(g, rp) ==
    LET sorted == SortByColor(rp) IN
    [g EXCEPT !.players = [i \in DOMAIN sorted |-> NewPlayer(sorted[i].id, sorted[i].color)],
              !.status = "in-progress",
              !.turnIndex = 0,
              !.dice = Null,
              !.winners = EmptyArray,
              !.totalTurns = 0,
              !.powerUps = {}]

\* rollDice that ignores the multiplier of the player
rollDiceFace(g, face) ==
    IF g.status # "in-progress" THEN g ELSE [g EXCEPT !.dice = face]

\* rollDice: face is Math.floor(Math.random() * 6) + 1
rollDice(g, face) ==
    IF g.status # "in-progress" THEN g
    ELSE LET player == g.players[g.turnIndex] IN
         IF player.multiplier > 1
         THEN [g EXCEPT !.dice = face * player.multiplier,
                        !.players[g.turnIndex].multiplier = 1]
         ELSE [g EXCEPT !.dice = face]

\* the cells among cand that spawnPowerUps accepts: no piece is on them
FreeCells(g, cand) == {c \in cand : \A i \in DOMAIN g.players : ~Includes(g.players[i].pieces, c)}

\* spawnPowerUps without the clear() of line 115
spawnOverOld(g, cells) == [g EXCEPT !.powerUps = g.powerUps \cup FreeCells(g, cells)]

\* spawnPowerUps: cells are the (at most 3) distinct cells Math.random() draws
\* before the loop ends; the occupied ones among them are skipped
spawnPowerUps(g, cells) == [g EXCEPT !.powerUps = FreeCells(g, cells)]

PowerTypes == {"BOOST", "X2_NEXT", "DOUBLE_ROLL", "FREE_EXIT", "BOMB"}

\* applyPowerUp for the player at index pi; type is what Math.random() selects
applyPowerUp(g, pi, pieceIndex, type) ==
    LET player == g.players[pi] IN
    CASE type = "BOOST" ->
            LET currentPos == Get(player.pieces, pieceIndex) IN
            IF OnTrack(currentPos) /\ ~isWallAt(g.players, (currentPos + 4) % TrackLen)
            THEN [g EXCEPT !.players[pi].pieces[pieceIndex] = (currentPos + 4) % TrackLen]
            ELSE g
      [] type = "DOUBLE_ROLL" -> [g EXCEPT !.dice = Null]
      [] type = "X2_NEXT" -> [g EXCEPT !.players[pi].multiplier = 2]
      [] type = "FREE_EXIT" ->
            LET homePieceIdx == FindIndex(player.pieces, -1) IN
            IF homePieceIdx # -1
            THEN [g EXCEPT !.players[pi].pieces[homePieceIdx] = boardConfig[player.color].start]
            ELSE g
      [] type = "BOMB" -> [g EXCEPT !.players[pi].bomb = [pieceIndex |-> pieceIndex, timer |-> 3]]
      [] OTHER -> g

\* player.pieces[pieceIndex] = newPos: writing past the end grows the array
SetPiece(pieces, pieceIndex, newPos) ==
    [i \in DOMAIN pieces \cup {pieceIndex} |-> IF i = pieceIndex THEN newPos ELSE pieces[i]]

\* Math.abs
Abs(x) == IF x < 0 THEN 0 - x ELSE x

\* a distance measured along the track without going round it
StraightDist(pos, bombPos) == Abs(pos - bombPos)

\* dist of handleTurnEnd (lines 206-207)
BlastDist(pos, bombPos) ==
    IF Abs(pos - bombPos) > 26 THEN TrackLen - Abs(pos - bombPos) ELSE Abs(pos - bombPos)

\* the inner forEach of handleTurnEnd (lines 204-214): the pieces of one player
Blast(pieces, bombPos) ==
    [k \in DOMAIN pieces |->
        IF OnTrack(pieces[k]) /\ IsNum(bombPos) /\ BlastDist(pieces[k], bombPos) <= 2
        THEN -1 ELSE pieces[k]]

\* the explosion of the bomb of the player at index pi (lines 197-219)
Detonate(g, pi, bombPos) ==
    [g EXCEPT !.players =
        [i \in DOMAIN g.players |->
            IF i = pi
            THEN [g.players[i] EXCEPT
                    !.pieces = Blast(SetPiece(g.players[i].pieces,
                                              g.players[i].bomb.pieceIndex, -1), bombPos),
                    !.bomb = NoBomb]
            ELSE [g.players[i] EXCEPT !.pieces = Blast(g.players[i].pieces, bombPos)]]]

\* handleTurnEnd with the test of the timer (line 197) before that of the cell (192)
CountDownBlastFirst(g, pi, currentPos) ==
    IF g.players[pi].bomb.timer - 1 <= 0
    THEN Detonate(g, pi, currentPos)
    ELSE IF currentPos = -1 \/ (IsNum(currentPos) /\ currentPos >= 100)
         THEN [g EXCEPT !.players[pi].bomb = NoBomb]
         ELSE [g EXCEPT !.players[pi].bomb.timer = @ - 1]

\* handleTurnEnd from p.bomb.timer-- on; currentPos is the carrier piece's position
CountDown(g, pi, currentPos) ==
    IF currentPos = -1 \/ (IsNum(currentPos) /\ currentPos >= 100)
    THEN [g EXCEPT !.players[pi].bomb = NoBomb]
    ELSE IF g.players[pi].bomb.timer - 1 <= 0
         THEN Detonate(g, pi, currentPos)
         ELSE [g EXCEPT !.players[pi].bomb.timer = @ - 1]

\* handleTurnEnd for the player at index pi (-1: no such player)
TurnEndOf(g, pi) ==
    IF pi = -1 THEN g
    ELSE IF g.players[pi].bomb = NoBomb THEN g
    ELSE CountDown(g, pi, Get(g.players[pi].pieces, g.players[pi].bomb.pieceIndex))

\* handleTurnEnd: no handler of the gateway calls it
handleTurnEnd(g, playerId) == TurnEndOf(g, IndexOfId(g.players, playerId))

\* CaptureOn without the bomb's immunity (line 344)
CaptureOnBombToo(p, newPos) ==
    IF Count(p.pieces, newPos) = 1
    THEN [p.pieces EXCEPT ![CHOOSE i \in DOMAIN p.pieces : p.pieces[i] = newPos] = -1]
    ELSE p.pieces

\* CaptureOn without the wall's immunity (line 342)
CaptureOnWallToo(p, newPos) ==
    IF Count(p.pieces, newPos) >= 1
    THEN [p.pieces EXCEPT ![First({i \in DOMAIN p.pieces : p.pieces[i] = newPos})] = -1]
    ELSE p.pieces

\* the capture loop of movePiece (lines 336-349): the pieces of one other player
CaptureOn(p, newPos) ==
    LET enemyIndices == {i \in DOMAIN p.pieces : p.pieces[i] = newPos} IN
    IF Cardinality(enemyIndices) = 1
    THEN LET idx == CHOOSE i \in enemyIndices : TRUE IN
         IF p.bomb # NoBomb /\ p.bomb.pieceIndex = idx THEN p.pieces
         ELSE [p.pieces EXCEPT ![idx] = -1]
    ELSE p.pieces

checkWinCondition(g, pi) ==
    LET player == g.players[pi]
        allInGoal == \A i \in DOMAIN player.pieces : player.pieces[i] = GoalPos(player.color)
    IN IF allInGoal /\ ~Includes(g.winners, player.id)
       THEN LET w == Push(g.winners, player.id) IN
            IF Length(w) = Length(g.players) - 1 /\ Length(g.players) > 1
            THEN [g EXCEPT !.winners = w, !.status = "finished"]
            ELSE [g EXCEPT !.winners = w]
       ELSE g

\* what movePiece returns when it refuses: [g, success, eaten, landed]
MoveFailed(g) == [g |-> g, success |-> FALSE, eaten |-> {}, landed |-> NaN]

\* a capture scan that stops at the first player it sends a piece home of
CaptureFirstVictim(g, pi, newPos) ==
    [g EXCEPT !.players =
        [i \in DOMAIN g.players |->
            IF /\ OnTrack(newPos)
               /\ g.players[i].id # g.players[pi].id
               /\ \A k \in DOMAIN g.players :
                     (k < i /\ g.players[k].id # g.players[pi].id) =>
                         CaptureOn(g.players[k], newPos) = g.players[k].pieces
            THEN [g.players[i] EXCEPT !.pieces = CaptureOn(g.players[i], newPos)]
            ELSE g.players[i]]]

\* the capture block of movePiece (lines 334-349) for the mover at index pi
Capture(g, pi, newPos) ==
    [g EXCEPT !.players =
        [i \in DOMAIN g.players |->
            IF OnTrack(newPos) /\ g.players[i].id # g.players[pi].id
            THEN [g.players[i] EXCEPT !.pieces = CaptureOn(g.players[i], newPos)]
            ELSE g.players[i]]]

\* eatenPlayerId: the ids whose pieces differ between g and g1
Eaten(g, g1) == {g.players[i].id : i \in {k \in DOMAIN g.players : g1.players[k] # g.players[k]}}

\* the power-up block of movePiece (lines 351-355)
LandOnTile(g, pi, pieceIndex, newPos, type) ==
    IF OnTrack(newPos) /\ newPos \in g.powerUps
    THEN applyPowerUp([g EXCEPT !.powerUps = g.powerUps \ {newPos}], pi, pieceIndex, type)
    ELSE g

\* player.pieces[pieceIndex] = newPos; game.dice = null (lines 357-358)
Place(g, pi, pieceIndex, newPos) ==
    [g EXCEPT !.players[pi].pieces = SetPiece(g.players[pi].pieces, pieceIndex, newPos),
              !.dice = Null]

\* movePiece once newPos is computed (lines 331-362)
MoveTo(g, pi, pieceIndex, newPos, type) ==
    [g |-> checkWinCondition(
               Place(LandOnTile(Capture(g, pi, newPos), pi, pieceIndex, newPos, type),
                     pi, pieceIndex, newPos), pi),
     success |-> TRUE,
     eaten |-> Eaten(g, Capture(g, pi, newPos)),
     landed |-> newPos]

\* movePiece for the player at index pi (-1: no such player)
MoveBy(g, pi, pieceIndex, type) ==
    IF pi = -1 THEN MoveFailed(g)
    ELSE IF \/ g.dice = Null
            \/ g.dice <= 0
            \/ ~canMove(g.players, Get(g.players[pi].pieces, pieceIndex), g.dice,
                        g.players[pi].color)
    THEN MoveFailed(g)
    ELSE MoveTo(g, pi, pieceIndex,
                NewPos(Get(g.players[pi].pieces, pieceIndex), g.dice, g.players[pi].color),
                type)

\* movePiece: [g, success, eaten, landed]; eaten is the set of ids whose piece
\* was sent home, landed is newPos
movePiece(g, playerId, pieceIndex, type) ==
    MoveBy(g, IndexOfId(g.players, playerId), pieceIndex, type)

HasSurrendered(p) == \A i \in DOMAIN p.pieces : p.pieces[i] = -99

\* a test that lets advanceTurn select a withdrawn player
NotInWinners(g, i) == ~Includes(g.winners, g.players[i].id)

\* the players advanceTurn may select
Eligible(g, i) == ~Includes(g.winners, g.players[i].id) /\ ~HasSurrendered(g.players[i])

\* game.dice = null; game.totalTurns++ and the respawn of the tiles every 6 turns
EndTurn(g, cells) ==
    IF (g.totalTurns + 1) % 6 = 0
    THEN spawnPowerUps([g EXCEPT !.dice = Null, !.totalTurns = g.totalTurns + 1], cells)
    ELSE [g EXCEPT !.dice = Null, !.totalTurns = g.totalTurns + 1]

\* the steps after which the do-while of advanceTurn would stop
Hits(g) == {a \in 1..Length(g.players) : Eligible(g, (g.turnIndex + a) % Length(g.players))}

\* the do-while: turnIndex+1, ..., turnIndex+n (mod n), stopping at the first eligible
NextPlayer(g) ==
    IF Hits(g) = {} THEN g
    ELSE [g EXCEPT !.turnIndex = (g.turnIndex + First(Hits(g))) % Length(g.players)]

\* advanceTurn: cells is what spawnPowerUps sets if this advance respawns the tiles
advanceTurn(g, cells) ==
    IF g.status = "finished" THEN g
    ELSE NextPlayer(EndTurn(g, cells))

\* player.pieces = [-99, -99, -99, -99]
Withdraw(g, pi) == [g EXCEPT !.players[pi].pieces = [i \in 0..3 |-> -99]]

\* activePlayers of surrender
Active(g) == {i \in DOMAIN g.players : ~HasSurrendered(g.players[i])}

\* the end of surrender (lines 372-376)
LastStanding(g) ==
    IF Cardinality(Active(g)) < 2 /\ Length(g.players) > 1
    THEN [g EXCEPT !.status = "finished",
                   !.winners = Push(g.winners,
                                    IF Active(g) = {} THEN Undefined
                                    ELSE g.players[First(Active(g))].id)]
    ELSE g

\* a surrender that leaves the turn where it is
WithdrawnInTurn(g, playerId, cells) == LastStanding(g)

\* surrender once the player is withdrawn (lines 371-376)
Withdrawn(g, playerId, cells) ==
    LastStanding(IF g.players[g.turnIndex].id = playerId THEN advanceTurn(g, cells) ELSE g)

\* surrender for the player at index pi (-1: no such player)
SurrenderBy(g, pi, playerId, cells) ==
    IF pi = -1 THEN [g |-> g, success |-> FALSE]
    ELSE [g |-> Withdrawn(Withdraw(g, pi), playerId, cells), success |-> TRUE]

\* surrender: [g, success]
surrender(g, playerId, cells) == SurrenderBy(g, IndexOfId(g.players, playerId), playerId, cells)

hasAnyValidMove(g) ==
    /\ g.dice # Null
    /\ g.turnIndex \in DOMAIN g.players
    /\ \E i \in DOMAIN g.players[g.turnIndex].pieces :
          canMove(g.players, g.players[g.turnIndex].pieces[i], g.dice,
                  g.players[g.turnIndex].color)

\* validMoves without the filter on canMove
AnyPiece(g) == DOMAIN g.players[g.turnIndex].pieces

\* validMoves of getAutomatedBotMove
ValidMoves(g) ==
    {i \in DOMAIN g.players[g.turnIndex].pieces :
        canMove(g.players, g.players[g.turnIndex].pieces[i], g.dice,
                g.players[g.turnIndex].color)}

\* futurePos of getAutomatedBotMove for the piece at pos
FuturePos(pos, d, color) ==
    IF pos = -1 THEN boardConfig[color].start
    ELSE IF IsNum(pos) THEN JsMod(pos + d, TrackLen) ELSE NaN

\* the kill test of getAutomatedBotMove for a piece landing on futurePos
Kills(g, futurePos) ==
    /\ OnTrack(futurePos)
    /\ \E k \in DOMAIN g.players :
          /\ g.players[k].id # g.players[g.turnIndex].id
          /\ Includes(g.players[k].pieces, futurePos)
          /\ g.players[k].bomb = NoBomb

\* the priorities of getAutomatedBotMove: kill, leave home, any (at random)
BotChoice(validMoves, killers, moveOut) ==
    IF validMoves = {} THEN {-1}
    ELSE IF killers # {} THEN {First(killers)}
    ELSE IF moveOut # {} THEN {First(moveOut)}
    ELSE validMoves

BotChoiceAmong(g, validMoves) ==
    BotChoice(validMoves,
              {i \in validMoves :
                  Kills(g, FuturePos(g.players[g.turnIndex].pieces[i], g.dice,
                                     g.players[g.turnIndex].color))},
              {i \in validMoves : g.players[g.turnIndex].pieces[i] = -1})

\* getAutomatedBotMove: the set of values it can return (one, unless it draws at random)
getAutomatedBotMove(g) ==
    IF g.dice = Null THEN {-1} ELSE BotChoiceAmong(g, ValidMoves(g))

-----------------------------------------------------------------------------
(* RoomsService *)

\* the first color of `colors` no player of the room uses
FreeColor(rp) ==
    LET used == {rp[i].color : i \in DOMAIN rp} IN
    CASE "red" \notin used -> "red"
      [] "blue" \notin used -> "blue"
      [] "green" \notin used -> "green"
      [] "yellow" \notin used -> "yellow"
      [] OTHER -> "none"

createRoom(id) == Push(EmptyArray, [id |-> id, color |-> "red"])

\* joinRoom: the room's players afterwards (unchanged when it returns null)
joinRoom(rp, id) ==
    IF Length(rp) >= 4 \/ IndexOfId(rp, id) # -1 \/ FreeColor(rp) = "none" THEN rp
    ELSE Push(rp, [id |-> id, color |-> FreeColor(rp)])

\* ids starting with "BOT-"
BotIds == {"BOT-1", "BOT-2", "BOT-3"}
IsBot(id) == id \in BotIds

\* addBotToRoom: the bot's id is fresh
addBotToRoom(rp) ==
    IF Length(rp) >= 4 THEN rp
    ELSE LET fresh == CASE IndexOfId(rp, "BOT-1") = -1 -> "BOT-1"
                        [] IndexOfId(rp, "BOT-2") = -1 -> "BOT-2"
                        [] OTHER -> "BOT-3"
         IN Push(rp, [id |-> fresh, color |-> FreeColor(rp)])

-----------------------------------------------------------------------------
(* GameGateway: timers *)

\* setTimeout delays in ticks of 500 ms
\* 15000 ms: the turn timer of startTurnTimer
TurnTimeout == 30
\* 1500 ms: handleRollDice, no valid move
NoMoveDelay == 3
\* 1000 ms: handleTurnTimeout, after its roll
AutoMoveDelay == 2
\* 1000 ms: processBotTurn, before the roll
BotRollDelay == 2
\* 1500 ms: processBotTurn, between roll and move
BotMoveDelay == 3

Callback(kind, who, left) == [kind |-> kind, who |-> who, left |-> left]

\* startTurnTimer without the test of line 266: a bot's turn is timed too
startTurnTimerForAll(g) == IF g.status # "in-progress" THEN NoTimer ELSE TurnTimeout

\* startTurnTimer: the room's entry of turnTimers afterwards
startTurnTimer(g) ==
    IF g.status # "in-progress" THEN NoTimer
    ELSE IF IsBot(g.players[g.turnIndex].id) THEN NoTimer
    ELSE TurnTimeout

\* a gateway that never schedules the bot
processBotTurnIdle(g) == <<>>

\* processBotTurn: the callbacks it schedules
processBotTurn(g) ==
    IF g.status = "in-progress" /\ g.turnIndex \in DOMAIN g.players
                                /\ IsBot(g.players[g.turnIndex].id)
    THEN <<Callback("botRoll", g.players[g.turnIndex].id, BotRollDelay)>>
    ELSE <<>>

\* the end of advanceAndNotify (lines 341-342): [g, timer, cbs]
Notify(g) == [g |-> g, timer |-> startTurnTimer(g), cbs |-> processBotTurn(g)]

\* advanceAndNotify: [g, timer, cbs]
advanceAndNotify(g, cells) == Notify(advanceTurn(g, cells))

-----------------------------------------------------------------------------
(* What Math.random() and the clients can send *)

MaxFace == 6
Faces == 1..MaxFace

\* the cells the model lets spawnPowerUps draw
SpawnCandidates == {29, 42}
Draws(g) ==
    IF (g.totalTurns + 1) % 6 = 0
    THEN {S \in SUBSET SpawnCandidates : Cardinality(S) <= 3}
    ELSE {{}}

\* the power-up types that make a difference to a move of piece idx by player id
Types(g, id, idx) ==
    LET pi == IndexOfId(g.players, id) IN
    IF pi # -1 /\ g.dice # Null
       /\ NewPos(Get(g.players[pi].pieces, idx), g.dice, g.players[pi].color) \in g.powerUps
    THEN PowerTypes ELSE {"none"}

Humans == {"h1", "h2", "h3"}
\* the piece indices a client sends: 0..3 and one past the end of the array
MaxPieceIndex == 4
PieceIndices == 0..MaxPieceIndex

\* bounds of the exploration
MaxOps == 4
MaxPending == 2

\* the exploration stops after MaxOps handler runs
CanRun == ops < MaxOps

\* what `last` holds: the handler, for whom it ran, whether it acted, the piece
\* index it was given and the power-up type applyPowerUp drew ("none": no tile)
Mark(op, who, ok, idx) ==
    [op |-> op, who |-> who, ok |-> ok, idx |-> idx, power |-> "none"]
Drew(mark, type) == [mark EXCEPT !.power = type]

SetGame(g) ==
    /\ status' = g.status
    /\ players' = g.players
    /\ turnIndex' = g.turnIndex
    /\ dice' = g.dice
    /\ winners' = g.winners
    /\ totalTurns' = g.totalTurns
    /\ powerUps' = g.powerUps

\* pending without its k-th callback (all of pending for k = 0)
Without(k) == SubSeq(pending, 1, k - 1) \o SubSeq(pending, k + 1, Len(pending))

\* a handler (k = 0) or the k-th pending callback ran and left n = [g, timer, cbs]:
\* the game, the room's turn timer and the callbacks it scheduled
Ran(k, n, mark) ==
    /\ SetGame(n.g)
    /\ turnTimer' = n.timer
    /\ pending' = Without(k) \o n.cbs
    /\ Len(pending') <= MaxPending
    /\ ops' = ops + 1
    /\ last' = mark
    /\ UNCHANGED <<roomPlayers, probe>>

-----------------------------------------------------------------------------
(* GameGateway: the handlers of client messages *)

RECURSIVE AddAll(_, _, _)
\* handleStartGame's room.players.forEach(addPlayerToGame)
AddAll(g, rp, i) ==
    IF i >= Length(rp) THEN g
    ELSE AddAll(addPlayerToGame(g, rp[i].id, rp[i].color), rp, i + 1)

handleStartGame ==
    /\ CanRun
    /\ roomPlayers # NoRoom
    /\ Ran(0, Notify(startGame(AddAll(Game, roomPlayers, 0), roomPlayers)),
           Mark("start", "", TRUE, -1))

\* RollAccepted without the check of line 183
RollAcceptedAnyDice(g, c) ==
    /\ g.status = "in-progress"
    /\ g.turnIndex \in DOMAIN g.players
    /\ g.players[g.turnIndex].id = c

\* the checks of handleRollDice before it acts
RollAccepted(g, c) ==
    /\ g.status = "in-progress"
    /\ g.turnIndex \in DOMAIN g.players
    /\ g.players[g.turnIndex].id = c
    /\ g.dice = Null

\* handleRollDice after the roll (lines 191-200); g0 is the game resetTurnTimer saw
AfterRoll(g0, g, c) ==
    IF ~hasAnyValidMove(g)
    THEN [g |-> g, timer |-> startTurnTimer(g0), cbs |-> <<Callback("noMove", c, NoMoveDelay)>>]
    ELSE [g |-> g, timer |-> startTurnTimer(g), cbs |-> <<>>]

handleRollDice(c) ==
    /\ CanRun
    /\ RollAccepted(Game, c)
    /\ \E face \in Faces :
        Ran(0, AfterRoll(Game, rollDice(Game, face), c), Mark("roll", c, TRUE, -1))

\* MoveAdmitted without the check of line 212
MoveAdmittedAnyone(g, c) == g.status = "in-progress"

\* the checks of handleMovePiece before it calls movePiece
MoveAdmitted(g, c) ==
    /\ g.status = "in-progress"
    /\ g.players[g.turnIndex].id = c

handleMovePiece(c, idx) ==
    /\ CanRun
    /\ MoveAdmitted(Game, c)
    /\ \E type \in Types(Game, c, idx) : \E cells \in Draws(Game) :
        /\ movePiece(Game, c, idx, type).success
        /\ Ran(0, advanceAndNotify(movePiece(Game, c, idx, type).g, cells),
               Drew(Mark("move", c, TRUE, idx), type))

handleSurrender(c) ==
    /\ CanRun
    /\ \E cells \in Draws(Game) :
        /\ surrender(Game, c, cells).success
        /\ Ran(0, Notify(surrender(Game, c, cells).g), Mark("surrender", c, TRUE, -1))

-----------------------------------------------------------------------------
(* GameGateway: the callbacks of setTimeout *)

\* [g, timer, cbs, moved, idx, power]: n with whether movePiece succeeded, on
\* which piece and with which power-up type
AutoResult(n, moved, idx, type) ==
    [g |-> n.g, timer |-> n.timer, cbs |-> n.cbs, moved |-> moved, idx |-> idx,
     power |-> IF moved THEN type ELSE "none"]

\* the automatic move of player who (lines 314-330 and 363-375), for the piece
\* index getAutomatedBotMove returns and the power-up type drawn
autoMove(g, who, pieceIndex, type, cells) ==
    IF ~hasAnyValidMove(g)
    THEN AutoResult(advanceAndNotify(g, cells), FALSE, -1, type)
    ELSE AutoResult(advanceAndNotify(movePiece(g, who, pieceIndex, type).g, cells),
                    movePiece(g, who, pieceIndex, type).success, pieceIndex, type)

\* executeAutoMove: the automatic move of the current player
executeAutoMove(g, pieceIndex, type, cells) ==
    autoMove(g, g.players[g.turnIndex].id, pieceIndex, type, cells)

\* the piece indices an automatic move can be given
Picks(g) == IF hasAnyValidMove(g) THEN getAutomatedBotMove(g) ELSE {-1}

\* an automatic move e ran, as handler or as the k-th callback
RanAuto(k, e, op, who) == Ran(k, e, Drew(Mark(op, who, e.moved, e.idx), e.power))

\* the turn timer may fire: its time is up, or it is the only timer of the room
\* (the time it still has to run is then not observable)
TimerDue == turnTimer # NoTimer /\ (turnTimer = 0 \/ pending = <<>>)

\* handleTurnTimeout after the timer fired, when the dice is null (lines 295-302)
AutoRoll(g, who) ==
    [g |-> g, timer |-> NoTimer, cbs |-> <<Callback("autoMove", who, AutoMoveDelay)>>]

\* handleTurnTimeout, run by the timer of startTurnTimer
handleTurnTimeout ==
    /\ CanRun
    /\ TimerDue
    /\ IF dice = Null
       THEN \E face \in Faces :
               Ran(0, AutoRoll(rollDice(Game, face), players[turnIndex].id),
                   Mark("timeout", players[turnIndex].id, FALSE, -1))
       ELSE \E pieceIndex \in Picks(Game) :
            \E type \in Types(Game, players[turnIndex].id, pieceIndex) :
            \E cells \in Draws(Game) :
               RanAuto(0, executeAutoMove(Game, pieceIndex, type, cells),
                       "timeout", players[turnIndex].id)

Due(k, kind) == CanRun /\ k \in DOMAIN pending /\ pending[k].kind = kind /\ pending[k].left = 0

\* the callback of handleRollDice (lines 192-194)
NoMoveAdvance(k) ==
    /\ Due(k, "noMove")
    /\ \E cells \in Draws(Game) :
        Ran(k, advanceAndNotify(Game, cells), Mark("noMove", pending[k].who, TRUE, -1))

\* the callback of handleTurnTimeout (lines 300-302)
AutoMove(k) ==
    /\ Due(k, "autoMove")
    /\ \E pieceIndex \in Picks(Game) :
       \E type \in Types(Game, players[turnIndex].id, pieceIndex) :
       \E cells \in Draws(Game) :
        RanAuto(k, executeAutoMove(Game, pieceIndex, type, cells),
                "autoMove", players[turnIndex].id)

\* the bot's first callback once it rolled (lines 359-376): the turn timer is not touched
BotRolled(g, timer, who) ==
    [g |-> g, timer |-> timer, cbs |-> <<Callback("botMove", who, BotMoveDelay)>>]

\* the first callback of processBotTurn (lines 355-377)
BotRoll(k) ==
    /\ Due(k, "botRoll")
    /\ IF players[turnIndex].id # pending[k].who
       THEN Ran(k, [g |-> Game, timer |-> turnTimer, cbs |-> <<>>],
                Mark("botRoll", pending[k].who, FALSE, -1))
       ELSE \E face \in Faces :
               Ran(k, BotRolled(rollDice(Game, face), turnTimer, pending[k].who),
                   Mark("botRoll", pending[k].who, TRUE, -1))

\* the second callback of processBotTurn (lines 362-376)
BotMove(k) ==
    /\ Due(k, "botMove")
    /\ \E pieceIndex \in Picks(Game) :
       \E type \in Types(Game, pending[k].who, pieceIndex) :
       \E cells \in Draws(Game) :
        RanAuto(k, autoMove(Game, pending[k].who, pieceIndex, type, cells),
                "botMove", pending[k].who)

\* 500 ms pass: no callback is due
Tick ==
    /\ pending # <<>>
    /\ \A k \in DOMAIN pending : pending[k].left > 0
    /\ turnTimer # 0
    /\ pending' = [k \in DOMAIN pending |-> [pending[k] EXCEPT !.left = @ - 1]]
    /\ turnTimer' = IF turnTimer = NoTimer THEN NoTimer ELSE turnTimer - 1
    /\ last' = Mark("tick", "", TRUE, -1)
    /\ UNCHANGED <<gameVars, roomPlayers, ops, probe>>

-----------------------------------------------------------------------------
(* The room before the game: handleCreateRoom, handleJoinRoom, handleAddBot *)

\* handleJoinRoom on [rp, g]
JoinRoom(s, c) ==
    LET rp == joinRoom(s.rp, c) IN
    IF IndexOfId(rp, c) = -1 THEN s
    ELSE [rp |-> rp, g |-> addPlayerToGame(s.g, c, rp[IndexOfId(rp, c)].color)]

AddBot(s) == [s EXCEPT !.rp = addBotToRoom(s.rp)]

CreateRoom(c) == [rp |-> createRoom(c), g |-> createGame]

\* who arrives after h1 has created the room, in order ("bot": addBot is sent)
Arrivals == {<<"h2">>, <<"h2", "h3">>, <<"h2", "bot">>, <<"bot">>}

RECURSIVE Lobby(_, _)
Lobby(s, arrivals) ==
    IF arrivals = <<>> THEN s
    ELSE Lobby(IF Head(arrivals) = "bot" THEN AddBot(s) ELSE JoinRoom(s, Head(arrivals)),
               Tail(arrivals))

-----------------------------------------------------------------------------
(* Leaving: handleDisconnect, removePlayer, removePlayerFromRoom *)

\* a session the map `games` does not hold (status "none")
NoGame == [createGame EXCEPT !.status = "none"]

\* array.filter(p => p.id !== id)
WithoutId(a, id) ==
    [k \in 0..(Cardinality({i \in DOMAIN a : a[i].id # id}) - 1) |->
        a[CHOOSE i \in DOMAIN a :
            a[i].id # id /\ Cardinality({j \in DOMAIN a : j < i /\ a[j].id # id}) = k]]

\* removePlayerFromRoom on the room of the player: an empty room is deleted
removePlayerFromRoom(rp, id) == WithoutId(rp, id)

\* the body of the loop of removePlayer (lines 440-445), for one entry of games
RemoveFromSession(g, id) ==
    IF g.status = "none" THEN g
    ELSE IF g.status = "waiting"
         THEN IF Length(WithoutId(g.players, id)) = 0 THEN NoGame
              ELSE [g EXCEPT !.players = WithoutId(g.players, id)]
         ELSE IF Length(g.players) = 0 THEN NoGame ELSE g

\* the test of handleDisconnect (lines 40-51) for client c, whose room (the
\* first that holds c, NoRoom if none does) is rp with session g
DisconnectRemoves(rp, g, c) ==
    /\ ~IsBot(c)
    /\ IndexOfId(rp, c) = -1 \/ g.status \in {"none", "waiting"}

NoProbe == [kind |-> "none"]

\* the variables of a game g of room rp whose turn has just begun
InitAs(rp, g) ==
    /\ roomPlayers = rp
    /\ status = g.status
    /\ players = g.players
    /\ turnIndex = g.turnIndex
    /\ dice = g.dice
    /\ winners = g.winners
    /\ totalTurns = g.totalTurns
    /\ powerUps = g.powerUps
    /\ turnTimer = startTurnTimer(g)
    /\ pending = processBotTurn(g)
    /\ ops = 0
    /\ last = Mark("init", "", TRUE, -1)

\* the room as the lobby leaves it: the game is waiting
InitLobby ==
    \E arrivals \in Arrivals :
        InitAs(Lobby(CreateRoom("h1"), arrivals).rp, Lobby(CreateRoom("h1"), arrivals).g)

Pieces(a, b, c, d) == [i \in 0..3 |-> CASE i = 0 -> a [] i = 1 -> b [] i = 2 -> c [] OTHER -> d]

\* a started game of the room,  with these pieces, in the order of its players
Started(rp, pcs, ti, w, tt, tiles) ==
    LET g == startGame(createGame, rp) IN
    [g EXCEPT !.players = [i \in DOMAIN g.players |-> [g.players[i] EXCEPT !.pieces = pcs[i + 1]]],
              !.turnIndex = ti, !.winners = w, !.totalTurns = tt, !.powerUps = tiles]

\* Games in progress, at the beginning of a turn, that play reaches from the lobby.
\* Late: 4 players, green (h3) has finished, yellow (the bot) needs a 1 to finish.
RoomLate == Lobby(CreateRoom("h1"), <<"h2", "h3", "bot">>).rp
GameLate ==
    Started(RoomLate,
            <<Pieces(105, 105, 105, 105), Pieces(205, 205, 205, 204),
              Pieces(30, -1, -1, 305), Pieces(45, -1, -1, -1)>>,
            1, Push(EmptyArray, "h3"), 100, {})
\* Tiles: 2 players, tiles 2 cells ahead of a blue and of a red piece
RoomTiles == Lobby(CreateRoom("h1"), <<"h2">>).rp
GameTiles ==
    Started(RoomTiles,
            <<Pieces(27, -1, -1, -1), Pieces(40, 33, -1, -1)>>,
            0, EmptyArray, 10, {29, 42})

\* Bomb: Tiles after blue moved 27 -> 29 onto the tile and drew BOMB, and red
\* moved 40 -> 43
GameBomb ==
    [Started(RoomTiles,
             <<Pieces(29, -1, -1, -1), Pieces(43, 33, -1, -1)>>,
             0, EmptyArray, 12, {42})
        EXCEPT !.players[0].bomb = [pieceIndex |-> 0, timer |-> 3]]

InitMidGame ==
    \/ InitAs(RoomLate, GameLate)
    \/ InitAs(RoomTiles, GameTiles)
    \/ InitAs(RoomTiles, GameBomb)

Init == (InitLobby \/ InitMidGame) /\ probe = NoProbe

Next ==
    \/ handleStartGame
    \/ \E c \in Humans : handleRollDice(c)
    \/ \E c \in Humans : \E idx \in PieceIndices : handleMovePiece(c, idx)
    \/ \E c \in Humans : handleSurrender(c)
    \/ handleTurnTimeout
    \/ \E k \in 1..MaxPending : NoMoveAdvance(k)
    \/ \E k \in 1..MaxPending : AutoMove(k)
    \/ \E k \in 1..MaxPending : BotRoll(k)
    \/ \E k \in 1..MaxPending : BotMove(k)
    \/ Tick

Spec == Init /\ [][Next]_vars

-----------------------------------------------------------------------------
(* Requests the gateway rejects *)

\* a handler returned before it changed anything.  What follows a rejected
\* request is what follows without it, so the exploration ends with it.
Rejected(mark) ==
    /\ ops' = MaxOps
    /\ last' = mark
    /\ UNCHANGED <<gameVars, roomPlayers, turnTimer, pending, probe>>

\* handleRollDice returning at line 179, 182 or 183
RollRejected(c) ==
    /\ CanRun
    /\ ~RollAccepted(Game, c)
    /\ Rejected(Mark("roll", c, FALSE, -1))

\* handleMovePiece returning at line 209, 212 or 215
MoveRejected(c, idx) ==
    /\ CanRun
    /\ ~MoveAdmitted(Game, c) \/ ~movePiece(Game, c, idx, "none").success
    /\ Rejected(Mark("move", c, FALSE, idx))

NextReq ==
    \/ Next
    \/ \E c \in Humans : RollRejected(c)
    \/ \E c \in Humans : \E idx \in PieceIndices : MoveRejected(c, idx)

\* Spec with the rejected requests made visible in `last`
SpecReq == Init /\ [][NextReq]_vars

-----------------------------------------------------------------------------
(* canMove and the destination of movePiece, as functions *)

\* the positions of the encoding for a piece of this color that is in play
EncodedPositions(color) ==
    {-1} \cup 0..(TrackLen - 1) \cup boardConfig[color].finalPathStart..GoalPos(color)

BoardInputs ==
    {[kind |-> "input", color |-> color, pos |-> pos, d |-> d] :
        color \in Colors, pos \in UNION {EncodedPositions(c) : c \in Colors}, d \in Faces}

InitBoard ==
    /\ InitAs(createRoom("h1"), createGame)
    /\ probe \in {i \in BoardInputs : i.pos \in EncodedPositions(i.color)}

\* canMove on a board without walls and newPos of movePiece, for the input in probe
ResolveDestination ==
    /\ probe.kind = "input"
    /\ probe' = [kind |-> "dest", color |-> probe.color, pos |-> probe.pos, d |-> probe.d,
                 ok |-> canMove(EmptyArray, probe.pos, probe.d, probe.color),
                 dest |-> NewPos(probe.pos, probe.d, probe.color)]
    /\ UNCHANGED <<gameVars, roomPlayers, turnTimer, pending, ops, last>>

SpecBoard == InitBoard /\ [][ResolveDestination]_vars

-----------------------------------------------------------------------------
(* movePiece on the boards of a game of three *)

\* the room of h1 (red), h2 (blue) and h3 (green)
RoomOfThree == Lobby(CreateRoom("h1"), <<"h2", "h3">>).rp

\* cells around blue's start (27) and turn (25) cells, and home
BoardCells == {-1, 23, 27, 29}
\* the dice that take a piece from one of the cells to another, or into a stretch
BoardDice == {2, 4, 6}
\* a tile on a cell no piece of the boards is on
BoardTiles == {{}, {25}}

\* the pieces of green, blue and red on a board
BoardPieces ==
    {<<Pieces(a, b, -1, -1), Pieces(c, -1, -1, -1), Pieces(d, -1, -1, -1)>> :
        a \in BoardCells, b \in BoardCells, c \in BoardCells, d \in BoardCells}

\* the board with these pieces where player `carrier` (-1: nobody) has a bomb on piece 0
Board(pcs, carrier, ti, d, tiles) ==
    [Started(RoomOfThree, pcs, ti, EmptyArray, 10, tiles) EXCEPT
        !.dice = d,
        !.players = [i \in DOMAIN @ |->
                        IF i = carrier THEN [@[i] EXCEPT !.bomb = [pieceIndex |-> 0, timer |-> 3]]
                        ELSE @[i]]]

\* Play only leaves pieces of two players on one cell when the cell is the start
\* cell of one of them (an exit from home does not capture a wall, FREE_EXIT does
\* not capture) or one of the pieces carries a bomb; a bomb is on a piece that
\* has left home.
Playable(g) ==
    /\ \A i \in DOMAIN g.players :
          g.players[i].bomb # NoBomb => g.players[i].pieces[g.players[i].bomb.pieceIndex] # -1
    /\ \A i \in DOMAIN g.players : \A j \in DOMAIN g.players : \A c \in BoardCells \ {-1} :
          (i # j /\ Includes(g.players[i].pieces, c) /\ Includes(g.players[j].pieces, c)) =>
              \/ c = boardConfig[g.players[i].color].start
              \/ c = boardConfig[g.players[j].color].start
              \/ g.players[i].bomb # NoBomb /\ g.players[i].pieces[g.players[i].bomb.pieceIndex] = c
              \/ g.players[j].bomb # NoBomb /\ g.players[j].pieces[g.players[j].bomb.pieceIndex] = c

Boards ==
    {g \in {Board(pcs, carrier, ti, d, tiles) :
                pcs \in BoardPieces, carrier \in -1..2, ti \in 0..2, d \in BoardDice,
                tiles \in BoardTiles} : Playable(g)}

InitMove ==
    /\ \E g \in Boards : InitAs(RoomOfThree, g)
    /\ probe = NoProbe

\* what a call of movePiece did: the players and the dice before it, the mover and the result
MoveProbe(before, d, pi, idx, r) ==
    [kind |-> "move", before |-> before, d |-> d, pi |-> pi, idx |-> idx,
     ok |-> r.success, landed |-> r.landed, eaten |-> r.eaten]

\* the number of calls of movePiece on a board
MaxMoves == 1

\* movePiece for the player at turnIndex, as the gateway calls it
MoveStep(idx, type) ==
    /\ ops < MaxMoves
    /\ SetGame(movePiece(Game, players[turnIndex].id, idx, type).g)
    /\ probe' = MoveProbe(players, dice, turnIndex, idx,
                          movePiece(Game, players[turnIndex].id, idx, type))
    /\ ops' = ops + 1
    /\ last' = Drew(Mark("movePiece", players[turnIndex].id,
                         movePiece(Game, players[turnIndex].id, idx, type).success, idx),
                    type)
    /\ UNCHANGED <<roomPlayers, turnTimer, pending>>

NextMove ==
    \E idx \in PieceIndices : \E type \in Types(Game, players[turnIndex].id, idx) :
        MoveStep(idx, type)

SpecMove == InitMove /\ [][NextMove]_vars

-----------------------------------------------------------------------------
(* advanceTurn on the rosters of 2, 3 and 4 players *)

TurnRooms ==
    {Lobby(CreateRoom("h1"), arrivals).rp :
        arrivals \in {<<"h2">>, <<"h2", "h3">>, <<"h2", "h3", "bot">>}}

\* a player is in play, has finished ("won"), has surrendered ("gone"), or has
\* finished and surrendered afterwards
Kinds == {"play", "won", "gone", "wongone"}

\* the indices of the players who have finished, as the array of their ids in
\* the order of the indices
WinnersOf(ps, W) ==
    [k \in 0..(Cardinality(W) - 1) |->
        ps[CHOOSE i \in W : Cardinality({j \in W : j < i}) = k].id]

\* the game in progress of room rp whose player i is of kind kinds[i]
TurnGame(rp, kinds, ti) ==
    Started(rp,
            [i \in 1..Length(rp) |->
                CASE kinds[i - 1] = "play" -> Pieces(-1, -1, -1, -1)
                  [] kinds[i - 1] = "won" ->
                        Pieces(GoalPos(SortByColor(rp)[i - 1].color), GoalPos(SortByColor(rp)[i - 1].color),
                               GoalPos(SortByColor(rp)[i - 1].color), GoalPos(SortByColor(rp)[i - 1].color))
                  [] OTHER -> Pieces(-99, -99, -99, -99)],
            ti,
            WinnersOf(SortByColor(rp), {i \in DOMAIN kinds : kinds[i] \in {"won", "wongone"}}),
            1, {})

\* While the status is in-progress fewer than n-1 players have finished
\* (checkWinCondition) and 2 or more have not surrendered (surrender).
InProgress(kinds) ==
    /\ Cardinality({i \in DOMAIN kinds : kinds[i] \in {"won", "wongone"}})
           < Cardinality(DOMAIN kinds) - 1
    /\ Cardinality({i \in DOMAIN kinds : kinds[i] \in {"play", "won"}}) >= 2

InitTurn ==
    /\ \E rp \in TurnRooms : \E kinds \in [0..(Length(rp) - 1) -> Kinds] :
           \E ti \in 0..(Length(rp) - 1) :
               /\ InProgress(kinds)
               /\ InitAs(rp, TurnGame(rp, kinds, ti))
    /\ probe = NoProbe

\* the number of calls of advanceTurn on a game
MaxAdvances == 2

\* advanceTurn, as the gateway calls it after a move or a surrender
AdvanceStep ==
    /\ ops < MaxAdvances
    /\ \E cells \in Draws(Game) : SetGame(advanceTurn(Game, cells))
    /\ probe' = [kind |-> "advance", from |-> turnIndex]
    /\ ops' = ops + 1
    /\ last' = Mark("advanceTurn", players[turnIndex].id, TRUE, -1)
    /\ UNCHANGED <<roomPlayers, turnTimer, pending>>

SpecTurn == InitTurn /\ [][AdvanceStep]_vars

-----------------------------------------------------------------------------
(* surrender on the rosters of 2, 3 and 4 players, in progress and finished *)

\* a game ended by checkWinCondition: all players but one have finished, and
\* the turn is still on the one who finished last
FinishedByPlay(kinds, ti) ==
    /\ \A i \in DOMAIN kinds : kinds[i] \in {"play", "won"}
    /\ Cardinality({i \in DOMAIN kinds : kinds[i] = "won"}) = Cardinality(DOMAIN kinds) - 1
    /\ kinds[ti] = "won"

InitSurrender ==
    /\ \E rp \in TurnRooms : \E kinds \in [0..(Length(rp) - 1) -> Kinds] :
           \E ti \in 0..(Length(rp) - 1) :
               \/ /\ InProgress(kinds)
                  /\ InitAs(rp, TurnGame(rp, kinds, ti))
               \/ /\ FinishedByPlay(kinds, ti)
                  /\ InitAs(rp, [TurnGame(rp, kinds, ti) EXCEPT !.status = "finished"])
    /\ probe = NoProbe

\* the number of calls of surrender on a game
MaxSurrenders == 2

\* surrender, as handleSurrender calls it for the client c
SurrenderStep(c) ==
    /\ ops < MaxSurrenders
    /\ \E cells \in Draws(Game) :
          /\ surrender(Game, c, cells).success
          /\ SetGame(surrender(Game, c, cells).g)
    /\ probe' = [kind |-> "surrender", before |-> Game, who |-> c]
    /\ ops' = ops + 1
    /\ last' = Mark("surrender", c, TRUE, -1)
    /\ UNCHANGED <<roomPlayers, turnTimer, pending>>

SpecSurrender == InitSurrender /\ [][\E c \in Humans : SurrenderStep(c)]_vars

-----------------------------------------------------------------------------
(* handleTurnEnd on the boards of a game of three whose blue player has a bomb *)

\* the cell of the carrier piece: either side of the seam of the ring
BombCells == {0, 51}
\* cells at ring distance 1 to 4 of them
NearCells == {49, 50, 1, 2, 3}

\* green has two pieces on the track and one in its stretch; blue the carrier
\* piece, one more on the track and one in its stretch; red one piece on the
\* track and one at its goal, or has surrendered (cell -99)
BombPieces ==
    {<<Pieces(a, b, 103, -1), Pieces(B, c, 302, -1),
       IF d = -99 THEN Pieces(-99, -99, -99, -99) ELSE Pieces(d, -1, -1, 405)>> :
        a \in NearCells, b \in NearCells, B \in BombCells, c \in NearCells,
        d \in NearCells \cup {-99}}

\* a capture leaves no two players on one cell (the bomb and start cells aside)
Apart(pcs) ==
    /\ pcs[2][1] \notin {pcs[1][0], pcs[1][1], pcs[3][0]}
    /\ pcs[3][0] \notin {pcs[1][0], pcs[1][1]}

BombBoard(pcs) ==
    [Started(RoomOfThree, pcs, 1, EmptyArray, 10, {})
        EXCEPT !.players[1].bomb = [pieceIndex |-> 0, timer |-> 3]]

InitBomb ==
    /\ \E pcs \in BombPieces : Apart(pcs) /\ InitAs(RoomOfThree, BombBoard(pcs))
    /\ probe = NoProbe

\* the number of calls of handleTurnEnd on a board
MaxTurnEnds == 3

\* handleTurnEnd for the player at turnIndex
TurnEndStep ==
    /\ ops < MaxTurnEnds
    /\ SetGame(handleTurnEnd(Game, players[turnIndex].id))
    /\ probe' = [kind |-> "turnEnd", before |-> players, pi |-> turnIndex]
    /\ ops' = ops + 1
    /\ last' = Mark("handleTurnEnd", players[turnIndex].id, TRUE, -1)
    /\ UNCHANGED <<roomPlayers, turnTimer, pending>>

SpecBomb == InitBomb /\ [][TurnEndStep]_vars

-----------------------------------------------------------------------------
(* Two rooms: the room of the variables, and a second room, held in probe,  *)
(* whose clients send the requests                                          *)

\* the clients of the second room
Guests == {"a1", "a2"}

\* the second room: its players in RoomsService and its session in GameService
Elsewhere(rp, g) == [kind |-> "room", rp |-> rp, g |-> g]

\* the room of the variables is as in Init, or was just created by h1
InitRooms ==
    /\ \/ InitLobby
       \/ InitMidGame
       \/ InitAs(CreateRoom("h1").rp, CreateRoom("h1").g)
    /\ probe = Elsewhere(NoRoom, NoGame)

\* the number of requests of the clients of the second room
MaxGuestOps == 4

\* a request of guest c ran and left the second room as s = [rp, g]
GuestRan(op, c, s) ==
    /\ ops < MaxGuestOps
    /\ probe' = Elsewhere(s.rp, s.g)
    /\ probe' # probe
    /\ ops' = ops + 1
    /\ last' = Mark(op, c, TRUE, -1)
    /\ UNCHANGED <<roomPlayers, turnTimer, pending>>

\* handleCreateRoom in the second room
GuestCreates(c) ==
    /\ probe.rp = NoRoom
    /\ GuestRan("createRoom", c, CreateRoom(c))
    /\ UNCHANGED gameVars

\* handleJoinRoom in the second room
GuestJoins(c) ==
    /\ probe.rp # NoRoom
    /\ GuestRan("joinRoom", c,
                IF probe.g.status = "none"
                THEN [rp |-> joinRoom(probe.rp, c), g |-> probe.g]
                ELSE JoinRoom([rp |-> probe.rp, g |-> probe.g], c))
    /\ UNCHANGED gameVars

\* handleStartGame in the second room
GuestStarts(c) ==
    /\ probe.rp # NoRoom
    /\ GuestRan("start", c,
                [rp |-> probe.rp,
                 g |-> startGame(AddAll(IF probe.g.status = "none" THEN createGame ELSE probe.g,
                                        probe.rp, 0), probe.rp)])
    /\ UNCHANGED gameVars

\* handleDisconnect of a guest: removePlayer goes through every entry of games
GuestLeaves(c) ==
    /\ DisconnectRemoves(probe.rp, probe.g, c)
    /\ GuestRan("disconnect", c,
                [rp |-> removePlayerFromRoom(probe.rp, c),
                 g |-> RemoveFromSession(probe.g, c)])
    /\ SetGame(RemoveFromSession(Game, c))

NextRooms ==
    \E c \in Guests : GuestCreates(c) \/ GuestJoins(c) \/ GuestStarts(c) \/ GuestLeaves(c)

SpecRooms == InitRooms /\ [][NextRooms]_vars

-----------------------------------------------------------------------------
(* Claims checked on Spec *)

\* the players of the game advanceTurn may select
EligiblePlayers == {i \in DOMAIN players : Eligible(Game, i)}

\* C1: after start, if the status is in-progress then players[turnIndex] exists
\* and is neither in winners nor withdrawn (all pieces -99); and a state with no
\* such player has status finished.
C1_TurnIndexEligible ==
    status # "waiting" =>
        /\ status = "in-progress" => turnIndex \in EligiblePlayers
        /\ EligiblePlayers = {} => status = "finished"

\* C2: the status only moves waiting -> in-progress -> finished: it becomes
\* in-progress only from waiting and only by a start, it never goes from waiting
\* to finished, and once finished it never changes again.
C2_StatusOrder ==
    [][\/ status' = status
       \/ status = "waiting" /\ status' = "in-progress" /\ last'.op = "start"
       \/ status = "in-progress" /\ status' = "finished"]_vars

\* C3: in a started game of 2 or more players, whenever at most one player is
\* neither in winners nor withdrawn, the status is finished.
C3_FinishedWhenOneLeft ==
    (status # "waiting" /\ Length(players) >= 2 /\ Cardinality(EligiblePlayers) <= 1)
        => status = "finished"

\* the handlers that roll the dice
RollOps == {"roll", "timeout", "botRoll"}

\* C6: the dice becomes non-null only by a roll for the player at turnIndex while
\* it is null (a request, the timeout's roll or the bot's), so a turn has at most
\* one roll; every successful move and every turn advance leaves the dice null.
C6_OneRollPerTurn ==
    [][/\ (dice' # Null /\ dice' # dice) =>
              (dice = Null /\ last'.op \in RollOps /\ turnIndex' = turnIndex)
       /\ (last'.op \in {"move", "autoMove", "botMove"} /\ last'.ok) => dice' = Null
       /\ (turnIndex' # turnIndex \/ totalTurns' # totalTurns) => dice' = Null]_vars

\* the positions of the encoding for a piece of this color
ValidPos(pos, color) ==
    \/ pos = -1
    \/ pos = -99
    \/ OnTrack(pos)
    \/ IsNum(pos) /\ pos >= boardConfig[color].finalPathStart /\ pos <= GoalPos(color)

\* C8: every player has exactly 4 piece positions, each -1, -99, a main-track
\* cell 0..51 or a cell of the player's own final stretch.
C8_FourValidPieces ==
    \A i \in DOMAIN players :
        /\ DOMAIN players[i].pieces = 0..3
        /\ \A k \in DOMAIN players[i].pieces :
              ValidPos(players[i].pieces[k], players[i].color)

-----------------------------------------------------------------------------
(* Claims checked on SpecReq *)

\* C4: a roll request is accepted only when the status is in-progress, the
\* requester is the player at turnIndex and the dice is null; a rejected roll
\* leaves the game, the room and the timers unchanged.
C4_RollGuard ==
    [][last'.op = "roll" =>
          IF last'.ok
          THEN /\ status = "in-progress"
               /\ turnIndex \in DOMAIN players
               /\ players[turnIndex].id = last'.who
               /\ dice = Null
          ELSE UNCHANGED <<gameVars, roomPlayers, turnTimer, pending>>]_vars

\* a second roll in the same turn was rejected
C4_Witness ==
    /\ last.op = "roll"
    /\ ~last.ok
    /\ status = "in-progress"
    /\ players[turnIndex].id = last.who
    /\ dice # Null

\* C5: a move request is accepted only when the requester is the player at
\* turnIndex, the dice is non-null and the named piece is canMove-legal for it;
\* a rejected move leaves pieces, dice, turnIndex, winners, tiles, bombs,
\* multipliers and the timers unchanged.
C5_MoveGuard ==
    [][last'.op = "move" =>
          IF last'.ok
          THEN /\ status = "in-progress"
               /\ players[turnIndex].id = last'.who
               /\ dice # Null
               /\ canMove(players, Get(players[turnIndex].pieces, last'.idx), dice,
                          players[turnIndex].color)
          ELSE UNCHANGED <<gameVars, roomPlayers, turnTimer, pending>>]_vars

\* the player at turnIndex has rolled and named a piece that cannot move: rejected
C5_Witness ==
    /\ last.op = "move"
    /\ ~last.ok
    /\ status = "in-progress"
    /\ players[turnIndex].id = last.who
    /\ dice # Null
    /\ ~canMove(players, Get(players[turnIndex].pieces, last.idx), dice,
                players[turnIndex].color)

-----------------------------------------------------------------------------
(* Claims checked on SpecBoard *)

\* C7: for every color, dice 1..6 and position -1, 0..51 or own base..base+5:
\* if canMove accepts the move (walls aside), the destination movePiece computes
\* is a main-track cell 0..51 or a cell base..base+5 of the same color.
C7_DestinationInRange ==
    (probe.kind = "dest" /\ probe.ok) =>
        \/ OnTrack(probe.dest)
        \/ /\ probe.dest >= boardConfig[probe.color].finalPathStart
           /\ probe.dest <= GoalPos(probe.color)

\* a piece on the cell before its stretch moves 6: it lands on the goal cell
C7_Witness ==
    /\ probe.kind = "dest"
    /\ probe.ok
    /\ probe.pos = boardConfig[probe.color].turn
    /\ probe.d = 6
    /\ probe.dest = GoalPos(probe.color)

-----------------------------------------------------------------------------
(* Claims checked on SpecMove *)

\* the players other than the mover of the call in probe
Others == DOMAIN players \ {probe.pi}

\* the piece of this player on cell c, when there is exactly one
OnlyPieceOn(p, c) == CHOOSE k \in DOMAIN p.pieces : p.pieces[k] = c

CarriesBombOn(p, k) == p.bomb # NoBomb /\ p.bomb.pieceIndex = k

\* C9: when a move lands on main-track cell C, each other player with exactly
\* one piece on C has it reset to -1, unless that player has a bomb on that piece
\* index, and then the piece stays on C; a landing on a final-stretch cell
\* captures nothing.
C9_CaptureSingles ==
    (probe.kind = "move" /\ probe.ok) =>
        \A i \in Others :
            /\ (OnTrack(probe.landed) /\ Count(probe.before[i].pieces, probe.landed) = 1) =>
                  players[i].pieces[OnlyPieceOn(probe.before[i], probe.landed)] =
                      IF CarriesBombOn(probe.before[i], OnlyPieceOn(probe.before[i], probe.landed))
                      THEN probe.landed ELSE -1
            /\ (IsNum(probe.landed) /\ probe.landed >= 100) =>
                  players[i].pieces = probe.before[i].pieces

\* a move landed on a cell where one player had a lone piece, now home, and
\* another a lone piece with a bomb, still there
C9_Witness ==
    /\ probe.kind = "move"
    /\ probe.ok
    /\ OnTrack(probe.landed)
    /\ \E i \in Others : \E j \in Others :
          /\ Count(probe.before[i].pieces, probe.landed) = 1
          /\ ~Includes(players[i].pieces, probe.landed)
          /\ Count(probe.before[j].pieces, probe.landed) = 1
          /\ CarriesBombOn(probe.before[j], OnlyPieceOn(probe.before[j], probe.landed))
          /\ Includes(players[j].pieces, probe.landed)

\* C10: if a player has 2 or more pieces on a main-track cell, no move of
\* another player (an exit from home onto the cell included) captures one of
\* them: the player still has 2 or more pieces on the cell after it.
C10_WallsStand ==
    probe.kind = "move" =>
        \A i \in Others : \A c \in 0..(TrackLen - 1) :
            Count(probe.before[i].pieces, c) >= 2 => Count(players[i].pieces, c) >= 2

\* a piece left home onto a cell where another player has 2 pieces
C10_Witness ==
    /\ probe.kind = "move"
    /\ probe.ok
    /\ Get(probe.before[probe.pi].pieces, probe.idx) = -1
    /\ \E i \in Others : Count(players[i].pieces, probe.landed) >= 2

\* where the piece of the call in probe stood before the call
MovedFrom == Get(probe.before[probe.pi].pieces, probe.idx)

\* the main-track cells a piece on pos crosses or lands on in d steps: it leaves
\* the track after its turn cell
CrossedCells(pos, d, color) ==
    {(pos + i) % TrackLen :
        i \in {k \in 1..d : k <= DistanceToTurn(pos, color)}}

\* C11: a move of d steps by a piece on the main track is rejected for walls
\* exactly when another player has 2 or more pieces on a main-track cell the
\* piece crosses or lands on; walls past its turn cell, when it peels into its
\* stretch, and the mover's own stacks do not block it.
C11_WallsOnPath ==
    (probe.kind = "move" /\ OnTrack(MovedFrom)) =>
        (~probe.ok <=>
            \E i \in Others :
                \E c \in CrossedCells(MovedFrom, probe.d, probe.before[probe.pi].color) :
                    Count(probe.before[i].pieces, c) >= 2)

\* the other players with exactly one piece, without a bomb, on the landing cell
Victims ==
    {i \in Others :
        /\ Count(probe.before[i].pieces, probe.landed) = 1
        /\ ~CarriesBombOn(probe.before[i], OnlyPieceOn(probe.before[i], probe.landed))}

\* C12: when several opponents each have exactly one piece without a bomb on
\* the landing cell, one move sends the piece of every one of them home: the
\* scan does not stop at the first victim.
C12_CaptureAll ==
    (probe.kind = "move" /\ probe.ok /\ OnTrack(probe.landed) /\ Cardinality(Victims) >= 2) =>
        \A i \in Victims :
            /\ ~Includes(players[i].pieces, probe.landed)
            /\ Count(players[i].pieces, -1) = Count(probe.before[i].pieces, -1) + 1

\* a move landed on a cell where two opponents had a lone piece each; both are home
C12_Witness ==
    /\ probe.kind = "move"
    /\ probe.ok
    /\ OnTrack(probe.landed)
    /\ Cardinality(Victims) = 2
    /\ \A i \in Victims : players[i].pieces[OnlyPieceOn(probe.before[i], probe.landed)] = -1
    /\ probe.eaten = {probe.before[i].id : i \in Victims}

-----------------------------------------------------------------------------
(* Claims checked on SpecTurn *)

\* player i has not finished and has a piece that is not withdrawn
CanPlay(i) ==
    /\ \A k \in DOMAIN winners : winners[k] # players[i].id
    /\ \E k \in DOMAIN players[i].pieces : players[i].pieces[k] # -99

\* the player a steps after the one advanceTurn was called for
StepsOn(a) == (probe.from + a) % Length(players)

\* C13: advanceTurn on a game in progress sets turnIndex to the first player,
\* going round from the current index, who is neither in winners nor withdrawn;
\* it selects no withdrawn or finished player while an eligible one exists.
C13_NextEligible ==
    (probe.kind = "advance" /\ \E i \in DOMAIN players : CanPlay(i)) =>
        /\ CanPlay(turnIndex)
        /\ \E a \in 1..Length(players) :
              /\ turnIndex = StepsOn(a)
              /\ \A b \in 1..(a - 1) : ~CanPlay(StepsOn(b))

\* advanceTurn passed over a finished and a withdrawn player
C13_Witness ==
    /\ probe.kind = "advance"
    /\ turnIndex = StepsOn(3)
    /\ turnIndex # probe.from
    /\ Includes(winners, players[StepsOn(1)].id)
    /\ HasSurrendered(players[StepsOn(2)])
    /\ ~Includes(winners, players[StepsOn(2)].id)
    /\ CanPlay(turnIndex)

-----------------------------------------------------------------------------
(* Claims checked on Spec: power-ups, the bomb, surrender, the callbacks *)

\* the handlers that move a piece
MoveOps == {"move", "timeout", "autoMove", "botMove"}

\* C14: when a move lands on a tile and DOUBLE_ROLL is drawn, once the move is
\* handled (by handleMovePiece, the timeout's auto-move or the bot's) the dice
\* is null, turnIndex is still on the same player and that player may roll.
C14_DoubleRollKeepsTurn ==
    [][(last'.op \in MoveOps /\ last'.ok /\ last'.power = "DOUBLE_ROLL"
        /\ status' = "in-progress") =>
          /\ dice' = Null
          /\ turnIndex' = turnIndex
          /\ players'[turnIndex'].id = last'.who]_vars

\* C15: a bomb armed with timer 3 goes off when its carrier has completed 3
\* turns: the countdown goes down by one at the end of each move of the carrier
\* (or the bomb is gone), and no other step changes it.
C15_BombCountdown ==
    [][\A i \in DOMAIN players :
          (players[i].bomb # NoBomb /\ last'.op # "start" /\ last'.power # "BOMB") =>
              IF last'.op \in MoveOps /\ last'.ok /\ last'.who = players[i].id
              THEN \/ players'[i].bomb = NoBomb
                   \/ players'[i].bomb.timer = players[i].bomb.timer - 1
              ELSE players'[i].bomb = players[i].bomb]_vars

-----------------------------------------------------------------------------
(* Claims checked on SpecBomb *)

\* the bomb of the call in probe and the cell of its piece before the call
BombBefore == probe.before[probe.pi].bomb
BombCell == probe.before[probe.pi].pieces[BombBefore.pieceIndex]

\* the call in probe set the bomb off
Detonated ==
    /\ probe.kind = "turnEnd"
    /\ BombBefore # NoBomb
    /\ BombBefore.timer = 1
    /\ OnTrack(BombCell)

\* min(|a - B|, 52 - |a - B|)
RingDistance(a, B) ==
    IF Abs(a - B) <= TrackLen - Abs(a - B) THEN Abs(a - B) ELSE TrackLen - Abs(a - B)

\* C16: on detonation at main-track cell B the carrier piece and every piece of
\* every player on a main-track cell at ring distance 2 or less from B is set to
\* -1; every other piece (in a stretch, at home, withdrawn) is left unchanged.
C16_BlastRadius ==
    Detonated =>
        \A i \in DOMAIN players : \A k \in DOMAIN players[i].pieces :
            players[i].pieces[k] =
                IF \/ i = probe.pi /\ k = BombBefore.pieceIndex
                   \/ /\ OnTrack(probe.before[i].pieces[k])
                      /\ RingDistance(probe.before[i].pieces[k], BombCell) <= 2
                THEN -1
                ELSE probe.before[i].pieces[k]

\* a bomb went off on cell 51: a piece on cell 1 went home, a piece on cell 2
\* stayed, and so did the pieces in a stretch and the withdrawn ones
C16_Witness ==
    /\ Detonated
    /\ BombCell = 51
    /\ \E i \in DOMAIN players : \E k \in DOMAIN players[i].pieces :
          probe.before[i].pieces[k] = 1 /\ players[i].pieces[k] = -1
    /\ \E i \in DOMAIN players : \E k \in DOMAIN players[i].pieces :
          probe.before[i].pieces[k] = 2 /\ players[i].pieces[k] = 2
    /\ players[0].pieces[2] = 103
    /\ players[2].pieces = Pieces(-99, -99, -99, -99)

-----------------------------------------------------------------------------
(* Claims checked on SpecSurrender *)

\* the index of the player of the call in probe
Quitter == IndexOfId(probe.before.players, probe.who)

\* the players surrender's advanceTurn may select: not in winners when
\* surrender was called, not withdrawn after it
MayFollow(i) ==
    /\ ~Includes(probe.before.winners, players[i].id)
    /\ \E k \in DOMAIN players[i].pieces : players[i].pieces[k] # -99

\* the turn is on the first player who may follow, going round from the quitter
TurnPassedOn ==
    \E a \in 1..Length(players) :
        /\ turnIndex = (probe.before.turnIndex + a) % Length(players)
        /\ MayFollow(turnIndex)
        /\ \A b \in 1..(a - 1) :
              ~MayFollow((probe.before.turnIndex + b) % Length(players))

\* the players with a piece that is not withdrawn
Remaining == {i \in DOMAIN players : \E k \in DOMAIN players[i].pieces : players[i].pieces[k] # -99}

\* the quitter's four pieces are -99, and a last remaining player ends the game as winner
WithdrawnAndSettled ==
    /\ players[Quitter].pieces = Pieces(-99, -99, -99, -99)
    /\ Cardinality(Remaining) = 1 =>
          /\ status = "finished"
          /\ \E i \in Remaining : Includes(winners, players[i].id)

\* the quitter was the player at turnIndex and some player may follow
QuitInTurn ==
    /\ probe.before.players[probe.before.turnIndex].id = probe.who
    /\ \E i \in DOMAIN players : MayFollow(i)

-----------------------------------------------------------------------------
(* Claims checked on Spec: winners and the callbacks *)

\* C18: after any sequence of moves and surrenders, surrenders repeated or sent
\* after the game has finished included, winners holds no id twice and every
\* entry of winners is the id of a player of the game.
C18_WinnersDistinct ==
    /\ \A i \in DOMAIN winners : \A j \in DOMAIN winners : winners[i] = winners[j] => i = j
    /\ \A i \in DOMAIN winners : \E k \in DOMAIN players : players[k].id = winners[i]

\* the deferred callbacks of the room that have not fired and are not cancelled
Armed == (IF turnTimer = NoTimer THEN 0 ELSE 1) + Len(pending)

\* C19: at most one deferred callback is pending for the room at any time (the
\* turn timeout, the no-legal-move advance, the auto-move delay, the bot delays).
C19_OneCallbackArmed == Armed <= 1

\* the callbacks of setTimeout, by the name `last` gives their run
CallbackOps == {"noMove", "autoMove", "botRoll", "botMove"}

\* every callback of this kind that is due was scheduled during the turn of a
\* player who is not the player at turnIndex any more
StaleDue(kind) ==
    \A k \in DOMAIN pending :
        (pending[k].kind = kind /\ pending[k].left = 0) =>
            pending[k].who # players[turnIndex].id

\* C20: a callback scheduled during one player's turn has no effect once that
\* turn has ended by a move, a surrender or another advance: it neither
\* advances the turn nor moves a piece.
C20_StaleCallbackIdle ==
    [][(last'.op \in CallbackOps /\ StaleDue(last'.op)) => UNCHANGED gameVars]_vars

-----------------------------------------------------------------------------
(* Claims checked on Spec: the turn timer *)

\* the turn timer is armed only in a game in progress whose current player is human
TimerForHuman ==
    turnTimer # NoTimer =>
        /\ status = "in-progress"
        /\ turnIndex \in DOMAIN players
        /\ ~IsBot(players[turnIndex].id)

\* C21: the 15 s turn timeout is armed only while the status is in-progress and
\* the player at turnIndex is human, so none is armed while a bot is the current
\* player; a human's successful move cancels the timeout of that turn: the
\* timer left is none or a fresh one, and a timeout only ever fires for the
\* player whose turn it is.
C21_TimerOnlyForHuman ==
    /\ []TimerForHuman
    /\ [][/\ (last'.op = "move" /\ last'.ok) => turnTimer' \in {NoTimer, TurnTimeout}
          /\ last'.op = "timeout" =>
                /\ turnTimer # NoTimer
                /\ last'.who = players[turnIndex].id
                /\ ~IsBot(last'.who)]_vars

\* a human moved while the turn timer was running down; the turn is now a
\* bot's and no timer is armed
C21_Witness ==
    /\ last.op = "move"
    /\ last.ok
    /\ status = "in-progress"
    /\ IsBot(players[turnIndex].id)
    /\ turnTimer = NoTimer
    /\ pending # <<>>

\* the timeout fired with the dice rolled and a legal move: a legal move of the
\* current player was made for the piece in last.idx, and the turn advanced once
TimeoutMoved ==
    (last'.op = "timeout" /\ dice # Null /\ hasAnyValidMove(Game)) =>
        /\ last'.ok
        /\ last'.who = players[turnIndex].id
        /\ canMove(players, Get(players[turnIndex].pieces, last'.idx), dice,
                   players[turnIndex].color)
        /\ players'[turnIndex].pieces # players[turnIndex].pieces
        /\ status' # "finished" => totalTurns' = totalTurns + 1

\* the timeout fired with the dice null: the dice is rolled for the current
\* player, the turn stays, and the auto-move is scheduled after the fixed delay
TimeoutRolled ==
    (last'.op = "timeout" /\ dice = Null) =>
        /\ dice' # Null
        /\ turnIndex' = turnIndex
        /\ totalTurns' = totalTurns
        /\ \E k \in DOMAIN pending' :
              pending'[k] = Callback("autoMove", players[turnIndex].id, AutoMoveDelay)

\* the auto-move scheduled by the timeout runs for the player it was scheduled
\* for, with the dice rolled for that player, and the turn advances once
AutoMoveFollows ==
    last'.op = "autoMove" =>
        /\ \E k \in DOMAIN pending :
              /\ pending[k].kind = "autoMove"
              /\ pending[k].left = 0
              /\ pending[k].who = players[turnIndex].id
        /\ dice # Null
        /\ status' # "finished" => totalTurns' = totalTurns + 1

\* C22: when a human's turn timeout fires with the dice set and a legal move, a
\* legal move chosen by the bot logic is applied for that player and the turn
\* advances; with the dice null an auto-roll is made and the auto-move follows
\* after the fixed delay; in both cases exactly one turn advance results.
C22_TimeoutAutoPlay == [][TimeoutMoved /\ TimeoutRolled /\ AutoMoveFollows]_vars

-----------------------------------------------------------------------------
(* Claims checked on SpecRooms *)

\* C23: an operation on one room (create, join, start, disconnect, ...) never
\* changes or deletes the session of a different room: the other room's session
\* and its entry in the registry are unchanged.
C23_OtherRoomUntouched ==
    [][last'.op \in {"createRoom", "joinRoom", "start", "disconnect"} =>
          UNCHANGED <<gameVars, roomPlayers>>]_vars

-----------------------------------------------------------------------------
(* createGame on the sessions of a room, waiting, in progress and finished *)

\* createGame that always installs a new session
createGameAnew(rp, g) == IF rp = NoRoom THEN g ELSE createGame

\* createGame(roomId) (lines 45-63) for the room rp whose entry in games is g
createGameIn(rp, g) ==
    IF rp = NoRoom THEN g
    ELSE IF g.status # "none" THEN g
    ELSE createGame

\* the sessions of InitSurrender and of Init, a room whose session removePlayer
\* has deleted, and no room at all
InitCreate ==
    \/ InitSurrender
    \/ Init
    \/ InitAs(CreateRoom("h1").rp, NoGame) /\ probe = NoProbe
    \/ InitAs(NoRoom, NoGame) /\ probe = NoProbe

\* the number of calls of createGame on a room
MaxCreates == 2

CreateStep ==
    /\ ops < MaxCreates
    /\ SetGame(createGameIn(roomPlayers, Game))
    /\ probe' = [kind |-> "createGame", before |-> Game]
    /\ ops' = ops + 1
    /\ last' = Mark("createGame", "", TRUE, -1)
    /\ UNCHANGED <<roomPlayers, turnTimer, pending>>

SpecCreate == InitCreate /\ [][CreateStep]_vars

\* C24: createGame is idempotent: called for a room that already has a session
\* it leaves status, roster, pieces, turnIndex, dice, winners, totalTurns and
\* tiles unchanged, and the room has a session afterwards
C24_CreateGameIdempotent ==
    [][(status # "none" => UNCHANGED gameVars)
       /\ (roomPlayers # NoRoom => status' # "none")]_vars

\* createGame was called on a game in progress with pieces on the board, a
\* winner and a roster, and left it as it was
C24_Witness ==
    /\ last.op = "createGame"
    /\ probe.before.status = "in-progress"
    /\ Length(probe.before.winners) > 0
    /\ \E i \in DOMAIN players : \E j \in 0..3 : players[i].pieces[j] # -1
    /\ Game = probe.before

-----------------------------------------------------------------------------
(* handleStartGame on the sessions of a room, waiting, in progress and finished *)

\* the number of startGame messages of a room
MaxStarts == 2

\* handleStartGame ran on the session `before` and left n = [g, timer, cbs]
StartRan(before, n) ==
    /\ SetGame(n.g)
    /\ turnTimer' = n.timer
    /\ pending' = pending \o n.cbs
    /\ probe' = [kind |-> "start", before |-> before]
    /\ ops' = ops + 1
    /\ last' = Mark("start", "", TRUE, -1)
    /\ UNCHANGED roomPlayers

\* handleStartGame (lines 140-172): `if (!room) return`, createGame if the room
\* has no session, addPlayerToGame for every player of the room, startGame
StartStep ==
    /\ ops < MaxStarts
    /\ roomPlayers # NoRoom
    /\ StartRan(Game,
                Notify(startGame(AddAll(createGameIn(roomPlayers, Game), roomPlayers, 0),
                                 roomPlayers)))

SpecStart == InitCreate /\ [][StartStep]_vars

\* C25: immediately after start, whatever the session was before, the roster
\* is exactly the room's players in the order green, yellow, blue, red, every
\* piece is -1, every multiplier 1, no bomb is armed, turnIndex is 0, dice is
\* null, winners is empty, totalTurns is 0, there are no tiles and the status
\* is in-progress
C25_StartResets ==
    last.op = "start" =>
        /\ status = "in-progress"
        /\ turnIndex = 0
        /\ dice = Null
        /\ winners = EmptyArray
        /\ totalTurns = 0
        /\ powerUps = {}
        /\ DOMAIN players = DOMAIN roomPlayers
        /\ \A k \in DOMAIN roomPlayers : \E i \in DOMAIN players :
               players[i].id = roomPlayers[k].id /\ players[i].color = roomPlayers[k].color
        /\ \A i, j \in DOMAIN players :
               i < j => ColorRank(players[i].color) < ColorRank(players[j].color)
        /\ \A i \in DOMAIN players :
               /\ \A j \in 0..3 : players[i].pieces[j] = -1
               /\ players[i].multiplier = 1
               /\ players[i].bomb = NoBomb

\* a game in progress with a winner, pieces on the board and turns played was
\* started again
C25_Witness ==
    /\ last.op = "start"
    /\ probe.before.status = "in-progress"
    /\ Length(probe.before.winners) > 0
    /\ probe.before.totalTurns > 0
    /\ probe.before.turnIndex > 0
    /\ \E i \in DOMAIN probe.before.players : probe.before.players[i].pieces[0] # -1

-----------------------------------------------------------------------------
(* The game with clients who join and leave its room while it runs *)

\* a handler that changes the room ran and left s = [rp, g]; it arms no timer
\* and schedules nothing
RoomRan(s, mark) ==
    /\ CanRun
    /\ <<s.rp, s.g>> # <<roomPlayers, Game>>
    /\ roomPlayers' = s.rp
    /\ SetGame(s.g)
    /\ ops' = ops + 1
    /\ last' = mark
    /\ UNCHANGED <<turnTimer, pending, probe>>

\* handleJoinRoom (lines 78-123) of client c for the room of the game
handleJoinRoom(c) ==
    RoomRan(JoinRoom([rp |-> roomPlayers, g |-> Game], c), Mark("joinRoom", c, TRUE, -1))

\* handleDisconnect (lines 36-60) of client c: findRoomByPlayer finds the room
\* of the game or none
handleDisconnect(c) ==
    /\ DisconnectRemoves(IF IndexOfId(roomPlayers, c) = -1 THEN NoRoom ELSE roomPlayers, Game, c)
    /\ RoomRan([rp |-> removePlayerFromRoom(roomPlayers, c), g |-> RemoveFromSession(Game, c)],
               Mark("disconnect", c, TRUE, -1))

NextJoin ==
    \/ Next
    \/ \E c \in Humans : handleJoinRoom(c)
    \/ \E c \in Humans : handleDisconnect(c)

SpecJoin == Init /\ [][NextJoin]_vars

\* the ids and colors of the players of a game, in the order of the turns
RosterOf(ps) == [i \in DOMAIN ps |-> <<ps[i].id, ps[i].color>>]

\* C26: while a session is in-progress its roster is fixed: no operation (a
\* join, a disconnect, ...) adds, removes or reorders entries of players, and the
\* turn order stays the color order green, yellow, blue, red set at start
C26_RosterFixed ==
    [][status = "in-progress" /\ status' = "in-progress" /\ last'.op # "start" =>
          /\ RosterOf(players') = RosterOf(players)
          /\ \A i, j \in DOMAIN players' :
                 i < j => ColorRank(players'[i].color) < ColorRank(players'[j].color)]_vars

-----------------------------------------------------------------------------
(* Claims about the power-ups *)

\* a player other than the one at index pi has 2 or more pieces on the cell
EnemyWallAt(ps, pi, cell) ==
    \E j \in DOMAIN ps :
        j # pi /\ Cardinality({k \in DOMAIN ps[j].pieces : ps[j].pieces[k] = cell}) >= 2

\* C27: when a move lands a piece on a tile at main-track cell c and the effect
\* drawn is BOOST, the piece ends the move on (c + 4) mod 52, unless an enemy
\* wall lies on that cell, in which case it stays on c
C27_BoostHop ==
    (probe.kind = "move" /\ probe.ok /\ last.power = "BOOST" /\ OnTrack(probe.landed)) =>
        players[probe.pi].pieces[probe.idx] =
            IF EnemyWallAt(players, probe.pi, (probe.landed + 4) % TrackLen)
            THEN probe.landed
            ELSE (probe.landed + 4) % TrackLen

-----------------------------------------------------------------------------
(* movePiece onto a tile, for a player with pieces at home *)

\* blue's pieces are at home or on cell 30; red's first piece is at home or on 45
ExitPieces ==
    {<<Pieces(-1, -1, -1, -1), Pieces(a, b, c, d), Pieces(e, -1, -1, -1)>> :
        a \in {-1, 30}, b \in {-1, 30}, c \in {-1, 30}, d \in {-1, 30}, e \in {-1, 45}}

\* a tile on blue's start cell, or 6 cells ahead of cell 30
ExitTiles == {{27}, {36}}

\* it is blue's turn and the dice takes a piece out of home
InitExit ==
    /\ \E pcs \in ExitPieces : \E d \in {1, 6} : \E tiles \in ExitTiles :
           InitAs(RoomOfThree, Board(pcs, -1, 1, d, tiles))
    /\ probe = NoProbe

SpecExit == InitExit /\ [][NextMove]_vars

\* the pieces of the mover with the triggering move applied
PiecesMoved == SetPiece(probe.before[probe.pi].pieces, probe.idx, probe.landed)

\* C28: when the effect drawn is FREE_EXIT and, with the triggering move
\* applied, the player still has a piece at -1, exactly one such piece is moved
\* to the color's start cell in addition to the piece that just moved; when the
\* player has no piece at home nothing else changes
C28_FreeExit ==
    (probe.kind = "move" /\ probe.ok /\ last.power = "FREE_EXIT") =>
        IF \E h \in DOMAIN PiecesMoved : PiecesMoved[h] = -1
        THEN \E h \in DOMAIN PiecesMoved :
                /\ PiecesMoved[h] = -1
                /\ players[probe.pi].pieces =
                       SetPiece(PiecesMoved, h, boardConfig[players[probe.pi].color].start)
        ELSE players[probe.pi].pieces = PiecesMoved

-----------------------------------------------------------------------------
(* The game after a player drew X2_NEXT *)

\* Tiles after blue moved 27 -> 29 onto the tile and drew X2_NEXT: it is red's turn
GameDoubleDrawn ==
    [Started(RoomTiles,
             <<Pieces(29, -1, -1, -1), Pieces(40, 33, -1, -1)>>,
             1, EmptyArray, 11, {42})
        EXCEPT !.players[0].multiplier = 2]

\* and after red moved 40 -> 43: it is blue's turn again
GameDouble ==
    [Started(RoomTiles,
             <<Pieces(29, -1, -1, -1), Pieces(43, 33, -1, -1)>>,
             0, EmptyArray, 12, {42})
        EXCEPT !.players[0].multiplier = 2]

InitRoll ==
    /\ \/ InitAs(RoomTiles, GameTiles)
       \/ InitAs(RoomTiles, GameDoubleDrawn)
       \/ InitAs(RoomTiles, GameDouble)
       \/ InitAs(RoomLate, GameLate)
    /\ probe = NoProbe

SpecRoll == InitRoll /\ [][Next]_vars

\* every multiplier is 1 or 2
MultiplierOk == \A i \in DOMAIN players : players[i].multiplier \in {1, 2}

\* the step is a call of rollDice on a game in progress: by handleRollDice, by
\* the bot's first callback or by handleTurnTimeout when the dice is null
RollStep ==
    /\ status = "in-progress"
    /\ \/ last'.op = "roll"
       \/ last'.op = "botRoll" /\ last'.ok
       \/ last'.op = "timeout" /\ dice = Null

\* C29: a multiplier is always 1 or 2; a roll yields the face (1..6) times the
\* multiplier of the player it is made for and leaves that multiplier at 1, and
\* it leaves the multiplier of every other player as it is; X2_NEXT sets the
\* multiplier of its player to 2, and within a game it stays 2 until that roll
C29_Multiplier ==
    /\ []MultiplierOk
    /\ [][/\ RollStep =>
               /\ \E face \in 1..6 : dice' = face * players[turnIndex].multiplier
               /\ players'[turnIndex].multiplier = 1
               /\ \A j \in DOMAIN players \ {turnIndex} :
                      players'[j].multiplier = players[j].multiplier
          /\ (last'.power = "X2_NEXT" /\ last'.ok) =>
               players'[IndexOfId(players, last'.who)].multiplier = 2
          /\ (~RollStep /\ last'.op # "start") =>
               \A j \in DOMAIN players :
                   players[j].multiplier = 2 => players'[j].multiplier = 2]_vars

\* blue, who drew X2_NEXT, has rolled after red's turn: the dice is above 6, the
\* multiplier is back to 1
C29_Witness ==
    /\ last.op = "roll"
    /\ last.who = "h2"
    /\ dice \in {8, 10, 12}
    /\ players[turnIndex].id = "h2"
    /\ players[turnIndex].multiplier = 1
    /\ totalTurns = 12

-----------------------------------------------------------------------------
(* advanceTurn and spawnPowerUps around the turns that are multiples of 6 *)

\* the cells the draws of spawnPowerUps come from
SpawnCells == {27, 29, 33, 42, 45}

\* up to 3 of them, when the advance brings totalTurns to a multiple of 6
WideDraws(g) ==
    IF (g.totalTurns + 1) % 6 = 0
    THEN {S \in SUBSET SpawnCells : Cardinality(S) <= 3}
    ELSE {{}}

\* games of blue and red one or two advances before a respawn, or just after
\* one, with 0, 1, 2 or 3 tiles; a piece stands on a tile only where FREE_EXIT
\* put it, on the start cell of its color
SpawnGames ==
    {g \in {Started(RoomTiles, <<Pieces(a, -1, -1, -1), Pieces(b, 33, -1, -1)>>,
                    ti, EmptyArray, tt, tiles) :
                a \in {27, 29}, b \in {40, 45}, ti \in {0, 1}, tt \in {4, 5, 6},
                tiles \in {{}, {27}, {29, 42}, {10, 20, 30}}} :
        \A c \in g.powerUps \ {27} : \A i \in DOMAIN g.players : ~Includes(g.players[i].pieces, c)}

InitSpawn ==
    /\ \E g \in SpawnGames : InitAs(RoomTiles, g)
    /\ probe = NoProbe

\* the number of calls of advanceTurn on a game
MaxSpawnSteps == 3

\* advanceTurn, with the draws of spawnPowerUps taken from SpawnCells
SpawnStep ==
    /\ ops < MaxSpawnSteps
    /\ \E cells \in WideDraws(Game) : SetGame(advanceTurn(Game, cells))
    /\ probe' = [kind |-> "spawn", before |-> Game]
    /\ ops' = ops + 1
    /\ last' = Mark("advanceTurn", players[turnIndex].id, TRUE, -1)
    /\ UNCHANGED <<roomPlayers, turnTimer, pending>>

SpecSpawn == InitSpawn /\ [][SpawnStep]_vars

\* the step is a call of advanceTurn that brings totalTurns to a multiple of 6
RespawnStep == totalTurns' = totalTurns + 1 /\ totalTurns' % 6 = 0

\* no piece stands on a tile
TilesFree(ps, tiles) ==
    \A c \in tiles : \A i \in DOMAIN ps : \A k \in DOMAIN ps[i].pieces : ps[i].pieces[k] # c

\* C30: tiles are respawned exactly on the turn advances that bring totalTurns
\* to a multiple of 6; a respawn removes the tiles there are and places at most
\* 3, each on a main-track cell 0..51 no piece is on at that moment; totalTurns
\* grows by exactly 1 per turn advance; at every moment at most 3 tiles exist
C30_TileRespawn ==
    /\ [](Cardinality(powerUps) <= 3 /\ powerUps \subseteq 0..51)
    /\ [][/\ last'.op # "start" => totalTurns' \in {totalTurns, totalTurns + 1}
          /\ powerUps' \ powerUps # {} => RespawnStep
          /\ RespawnStep => TilesFree(players', powerUps')
          /\ (totalTurns' = totalTurns + 1 /\ ~RespawnStep) => powerUps' \subseteq powerUps]_vars

\* a respawn replaced three tiles by three others
C30_Witness ==
    /\ last.op = "advanceTurn"
    /\ totalTurns = 6
    /\ probe.before.powerUps = {10, 20, 30}
    /\ Cardinality(powerUps) = 3
    /\ powerUps \cap probe.before.powerUps = {}

-----------------------------------------------------------------------------
(* Claims checked on Spec: the advance after a roll without a legal move *)

\* C31: after a roll that leaves the roller without a legal move the turn
\* advances after the short delay, without a move, exactly once: the roll moves
\* nothing and keeps the turn, and the delayed advance runs in the turn of the
\* roller of a game still in progress, on the dice rolled, moves no piece and
\* advances once
C31_NoMoveAdvanceOnce ==
    [][/\ (last'.op = "roll" /\ ~hasAnyValidMove(Game')) =>
             /\ turnIndex' = turnIndex
             /\ players' = players
             /\ \E k \in DOMAIN pending' :
                    pending'[k].kind = "noMove" /\ pending'[k].who = last'.who
       /\ (last'.op = "noMove" /\ status = "in-progress") =>
             /\ players[turnIndex].id = last'.who
             /\ dice # Null
             /\ players' = players
             /\ totalTurns' = totalTurns + 1]_vars

-----------------------------------------------------------------------------
(* What the handlers emit to the room *)

\* handleMovePiece after a successful move (lines 218-234)
MoveEvents(eaten) ==
    (IF eaten THEN <<"killEvent">> ELSE <<>>)
        \o <<"pieceMoved", "game_state", "turnChanged">>

\* advanceAndNotify (lines 333-344)
AdvanceEvents == <<"message", "game_state", "turnChanged">>

\* executeAutoMove (lines 309-331) and the bot's second callback (lines 362-376):
\* without a legal move they advance, with getAutomatedBotMove = -1 they do nothing
AutoEvents(moved, advanced, eaten) ==
    IF moved
    THEN (IF eaten THEN <<"killEvent">> ELSE <<>>) \o <<"pieceMoved", "message">> \o <<"game_state", "turnChanged">>
    ELSE IF advanced THEN AdvanceEvents ELSE <<>>

\* handleSurrender (lines 242-253)
SurrenderEvents == <<"message", "game_state">>

\* the events of the handler or callback `last` names, in the order of the emits
Emitted(mark, advanced, eaten) ==
    CASE mark.op = "move" /\ mark.ok -> MoveEvents(eaten)
      [] mark.op = "surrender" /\ mark.ok -> SurrenderEvents
      [] mark.op = "noMove" -> AdvanceEvents
      [] mark.op \in {"autoMove", "botMove"} -> AutoEvents(mark.ok, advanced, eaten)
      [] mark.op = "timeout" ->
            IF mark.ok \/ advanced THEN AutoEvents(mark.ok, advanced, eaten)
            ELSE <<"diceRolled">>
      [] mark.op \in {"roll", "botRoll"} /\ mark.ok -> <<"diceRolled">>
      [] mark.op = "start" -> <<"roomUpdated", "gameStarted", "gameInitialized", "game_state">>
      [] OTHER -> <<>>

\* every occurrence of event a in ev comes before every occurrence of b
Before(ev, a, b) ==
    \A i, j \in DOMAIN ev : (ev[i] = a /\ ev[j] = b) => i < j

\* C32: every change of turnIndex within a game in progress (after a move, a
\* no-legal-move advance, a timeout auto-play, a bot move, a surrender of the
\* current player) comes with a turnChanged notification from the handler that
\* made it, hence before any roll of the new turn; within one move the capture
\* notification precedes the turnChanged notification
C32_TurnChangedNotified ==
    [][(status = "in-progress" /\ status' = "in-progress" /\ last'.op # "start"
            /\ turnIndex' # turnIndex) =>
          /\ \E i \in DOMAIN Emitted(last', totalTurns' # totalTurns, FALSE) :
                 Emitted(last', totalTurns' # totalTurns, FALSE)[i] = "turnChanged"
          /\ Before(Emitted(last', totalTurns' # totalTurns, TRUE), "killEvent", "turnChanged")]_vars

-----------------------------------------------------------------------------
(* Claims about withdrawn players and finished games *)

\* C33: withdrawal is permanent: once surrender has set a player's four pieces
\* to -99 no later operation of the same game changes any of those pieces, and
\* the player does not become the current player again
C33_WithdrawalPermanent ==
    [][last'.op # "start" =>
          \A i \in DOMAIN players :
              HasSurrendered(players[i]) =>
                  /\ i \in DOMAIN players'
                  /\ players'[i].pieces = players[i].pieces
                  /\ turnIndex' = i => turnIndex = i]_vars

\* the positions of all pieces
Positions(ps) == [i \in DOMAIN ps |-> ps[i].pieces]

\* C34: once the status is finished the game is frozen: no later request and
\* no callback still pending changes a piece position, turnIndex, dice or
\* winners
C34_FinishedFrozen ==
    [][(status = "finished" /\ last'.op # "start") =>
          /\ Positions(players') = Positions(players)
          /\ UNCHANGED <<turnIndex, dice, winners>>]_vars

-----------------------------------------------------------------------------
(* The game once the clients have gone quiet: only timers and callbacks run *)

\* the number of client requests before the clients go quiet
MaxClientOps == 2

\* from now on no client sends anything; the count of steps starts again and
\* totalTurns is remembered
ClientsQuiet ==
    /\ probe.kind = "none"
    /\ probe' = [kind |-> "quiet", tt |-> totalTurns]
    /\ ops' = 0
    /\ last' = Mark("quiet", "", TRUE, -1)
    /\ UNCHANGED <<gameVars, roomPlayers, turnTimer, pending>>

\* the turn timeout and the callbacks of setTimeout, and the passing of time
NextTimers ==
    \/ handleTurnTimeout
    \/ \E k \in 1..MaxPending : NoMoveAdvance(k)
    \/ \E k \in 1..MaxPending : AutoMove(k)
    \/ \E k \in 1..MaxPending : BotRoll(k)
    \/ \E k \in 1..MaxPending : BotMove(k)
    \/ Tick

NextLive ==
    \/ probe.kind = "none" /\ ops < MaxClientOps /\ Next
    \/ ClientsQuiet
    \/ probe.kind = "quiet" /\ NextTimers

\* every armed timer fires in the end
\* Node runs every timer that is due: a due turn timeout or callback fires (each
\* run counts in ops), and time passes while none is due
Fires ==
    /\ probe.kind = "quiet"
    /\ CanRun
    /\ TimerDue \/ \E k \in DOMAIN pending : pending[k].left = 0
    /\ ops' = ops + 1
SpecLive ==
    Init /\ [][NextLive]_vars /\ WF_ops(Fires) /\ WF_vars(probe.kind = "quiet" /\ Tick)

\* a game in progress has the turn timeout or a callback pending
\* something is armed that acts on the turn of the current player
Driven ==
    status = "in-progress" =>
        \/ turnTimer # NoTimer
        \/ \E k \in DOMAIN pending :
               \/ pending[k].kind \in {"noMove", "autoMove"}
               \/ turnIndex \in DOMAIN players /\ pending[k].who = players[turnIndex].id

\* C35: in a game in progress, with no client input and every armed timer firing
\* in the end, the turn advances or the game finishes: every in-progress state
\* has a turn timeout, an auto-play callback or a bot callback pending, and once
\* the clients are quiet the count of turns moves on or the status changes
C35_TurnNeverStalls ==
    /\ []Driven
    /\ (probe.kind = "quiet" /\ status = "in-progress")
           ~> (IF probe.kind = "quiet"
               THEN status # "in-progress" \/ totalTurns # probe.tt
               ELSE FALSE)
C35_Witness ==
    /\ probe.kind = "quiet"
    /\ status = "in-progress"
    /\ totalTurns # probe.tt
    /\ last.op \in {"noMove", "autoMove", "botMove"}

(* Claims about the bot's cascade *)

\* the cascades of processBotTurn that have not run to their end
BotCascades ==
    Cardinality({k \in DOMAIN pending : pending[k].kind \in {"botRoll", "botMove"}})

\* C36: a bot turn is one roll, at most one move and one advance: at most one
\* cascade of processBotTurn is pending for the room, and the bot rolls only
\* when no dice of the turn is standing
C36_OneBotCascade ==
    /\ [](BotCascades <= 1)
    /\ [][(last'.op = "botRoll" /\ last'.ok) => dice = Null]_vars

-----------------------------------------------------------------------------
(* handleTurnEnd when the carrier piece has left the track *)

\* the cell of the carrier piece: home, blue's goal, blue's stretch, the track
CarrierCells == {-1, GoalPos("blue"), 302, 1}
\* the turns left on the bomb
BombTimers == {1, 2}

\* green has a piece near cell 0 and one at home or in its stretch; blue the
\* carrier piece and one more; red a piece on the track, or has surrendered
DisarmPieces ==
    {<<Pieces(a, b, -1, -1), Pieces(B, c, -1, -1),
       IF d = -99 THEN Pieces(-99, -99, -99, -99) ELSE Pieces(d, -1, -1, 405)>> :
        a \in {0, 3, 50}, b \in {-1, 103}, B \in CarrierCells, c \in {2, 304},
        d \in {0, 49, -99}}

DisarmBoard(pcs, timer) ==
    [Started(RoomOfThree, pcs, 1, EmptyArray, 10, {})
        EXCEPT !.players[1].bomb = [pieceIndex |-> 0, timer |-> timer]]

InitDisarm ==
    /\ \E pcs \in DisarmPieces : \E timer \in BombTimers :
          InitAs(RoomOfThree, DisarmBoard(pcs, timer))
    /\ probe = NoProbe

SpecDisarm == InitDisarm /\ [][TurnEndStep]_vars

\* handleTurnEnd was called for a carrier whose bomb piece is at home or at its goal
CarrierOffBoard ==
    /\ probe.kind = "turnEnd"
    /\ BombBefore # NoBomb
    /\ BombCell \in {-1, GoalPos(probe.before[probe.pi].color)}

\* C37: when the piece carrying an armed bomb is at home or on its goal cell at
\* the end of its owner's turn, no piece of any player moves and the owner's
\* bomb is unarmed
C37_DisarmNoBlast ==
    CarrierOffBoard =>
        /\ Positions(players) = Positions(probe.before)
        /\ players[probe.pi].bomb = NoBomb

\* the bomb was on its last turn and the carrier at its goal: the piece on
\* cell 0 is still there
C37_Witness ==
    /\ CarrierOffBoard
    /\ BombBefore.timer = 1
    /\ BombCell = GoalPos("blue")
    /\ players[0].pieces[0] = 0
    /\ players[1].bomb = NoBomb

-----------------------------------------------------------------------------
(* getAutomatedBotMove on the boards of a game of three, blue to play *)

\* blue's first two pieces: at home, 5 and 2 cells before blue's turn cell (25),
\* in blue's stretch
BotCells == {-1, 20, 23, 303}
\* the cells of green's and of red's pieces: home, 24, blue's start cell
EnemyCells == {-1, 24, 27}
\* a roll that leaves home, and one that takes 20 to 24 and 23 past the turn cell
BotDice == {1, 4, 6}

\* green has two pieces in play, blue two (and two at its goal), red one
BotPieces ==
    {<<Pieces(a, b, -1, -1), Pieces(p, q, 305, 305), Pieces(c, -1, -1, 405)>> :
        a \in EnemyCells, b \in EnemyCells, p \in BotCells, q \in BotCells,
        c \in EnemyCells}

\* a bomb is on a piece that has left home; green and red share no cell of the track
BotPlayable(pcs, carrier) ==
    /\ carrier # -1 => pcs[carrier + 1][0] # -1
    /\ pcs[3][0] = -1 \/ pcs[3][0] \notin {pcs[1][0], pcs[1][1]}

InitBot ==
    /\ \E pcs \in BotPieces : \E carrier \in {-1, 0, 2} : \E d \in BotDice :
          /\ BotPlayable(pcs, carrier)
          /\ InitAs(RoomOfThree, Board(pcs, carrier, 1, d, {}))
    /\ probe = NoProbe

\* the number of calls of getAutomatedBotMove on a board
MaxPicks == 1

\* getAutomatedBotMove and, unless it returned -1, movePiece for the piece it
\* returned, as executeAutoMove and the bot's callback call them
PickStep(idx) ==
    /\ ops < MaxPicks
    /\ idx \in getAutomatedBotMove(Game)
    /\ IF idx = -1 THEN UNCHANGED gameVars
       ELSE SetGame(movePiece(Game, players[turnIndex].id, idx, "none").g)
    /\ probe' = [kind |-> "pick", before |-> Game, idx |-> idx,
                 ok |-> idx # -1 /\ movePiece(Game, players[turnIndex].id, idx, "none").success]
    /\ ops' = ops + 1
    /\ last' = Mark("getAutomatedBotMove", players[turnIndex].id, idx # -1, idx)
    /\ UNCHANGED <<roomPlayers, turnTimer, pending>>

SpecBot == InitBot /\ [][\E idx \in -1..3 : PickStep(idx)]_vars

Picked == probe.kind = "pick"

\* the pieces of the current player of g that canMove accepts for the dice of
\* g: none when there is no dice, as in hasAnyValidMove
Legal(g) ==
    IF g.dice = Null THEN {}
    ELSE {i \in 0..3 : canMove(g.players, g.players[g.turnIndex].pieces[i], g.dice,
                               g.players[g.turnIndex].color)}

\* C38: getAutomatedBotMove returns -1 exactly when no piece of the current
\* player is legal for the dice, and otherwise the index (0..3) of a piece
\* movePiece moves with the same dice
C38_PickIsLegal ==
    Picked =>
        /\ probe.idx = -1 <=> Legal(probe.before) = {}
        /\ probe.idx # -1 => probe.idx \in 0..3 /\ probe.ok

\* a 4 with a piece at home and one on cell 20: the piece on 20 was returned
\* and moved to 24
C38_Witness ==
    /\ Picked
    /\ probe.before.dice = 4
    /\ probe.before.players[1].pieces[0] = -1
    /\ probe.before.players[1].pieces[1] = 20
    /\ probe.idx = 1
    /\ players[1].pieces[1] = 24

\* movePiece for piece i of the current player of g sends a piece home
Captures(g, i) == movePiece(g, g.players[g.turnIndex].id, i, "none").eaten # {}

\* C39: whenever a legal move of the current player captures, the move
\* getAutomatedBotMove returns captures; a move that does not capture is
\* returned only when no legal move captures
C39_BotCaptures ==
    Picked =>
        ((\E i \in Legal(probe.before) : Captures(probe.before, i))
            => probe.idx # -1 /\ Captures(probe.before, probe.idx))

====
